---- MODULE Spec2Model ----
(***************************************************************************)
(* A model of the dbproto storage engine (package pkg/data): one Table     *)
(* with its encrypted file, Records, Cache and Indexes, the CRUD and batch *)
(* operations, and the Transaction wrapper.                                *)
(***************************************************************************)
EXTENDS Integers, Sequences, FiniteSets, TLC

(***************************************************************************)
(* Host values (Go interface{}) and stored values (structpb.Value).        *)
(***************************************************************************)
HInt(n) == [t |-> "int", s |-> "", n |-> n, b |-> FALSE]
HFloat(n) == [t |-> "float64", s |-> "", n |-> n, b |-> FALSE]
HStr(s) == [t |-> "string", s |-> s, n |-> 0, b |-> FALSE]
HBool(b) == [t |-> "bool", s |-> "", n |-> 0, b |-> b]
HNil == [t |-> "nil", s |-> "", n |-> 0, b |-> FALSE]
\* a Go value of a type that structpb.NewValue rejects (a struct, a channel)
HBad == [t |-> "struct", s |-> "", n |-> 0, b |-> FALSE]

PStr(s) == [k |-> "string", s |-> s, n |-> 0, b |-> FALSE]
PNum(n) == [k |-> "number", s |-> "", n |-> n, b |-> FALSE]
PBool(b) == [k |-> "bool", s |-> "", n |-> 0, b |-> b]
PNull == [k |-> "null", s |-> "", n |-> 0, b |-> FALSE]

GetStringValue(p) == IF p.k = "string" THEN p.s ELSE ""

Ok(x) == [err |-> FALSE, val |-> x]
Err == [err |-> TRUE, val |-> PNull]

(***************************************************************************)
(* strconv: decimal integers.                                              *)
(***************************************************************************)
Digit == {"0", "1", "2", "3", "4", "5", "6", "7", "8", "9"}

DigitVal(d) ==
    CASE d = "0" -> 0 [] d = "1" -> 1 [] d = "2" -> 2 [] d = "3" -> 3
      [] d = "4" -> 4 [] d = "5" -> 5 [] d = "6" -> 6 [] d = "7" -> 7
      [] d = "8" -> 8 [] d = "9" -> 9

CharAt(s, i) == SubSeq(s, i, i)

IsDigits(s) == Len(s) > 0 /\ \A i \in 1..Len(s) : CharAt(s, i) \in Digit

Unsigned(s) ==
    IF Len(s) > 0 /\ CharAt(s, 1) \in {"+", "-"} THEN SubSeq(s, 2, Len(s)) ELSE s

\* strconv.ParseInt(s, 10, 64) returns no error (strings of the model are
\* far shorter than the 19 digits at which the 64-bit range matters)
ParseIntOk(s) == IsDigits(Unsigned(s))

RECURSIVE DigitsVal(_)
DigitsVal(s) ==
    IF Len(s) = 0 THEN 0
    ELSE 10 * DigitsVal(SubSeq(s, 1, Len(s) - 1)) + DigitVal(CharAt(s, Len(s)))

ParseIntVal(s) ==
    IF Len(s) > 0 /\ CharAt(s, 1) = "-" THEN 0 - DigitsVal(Unsigned(s))
    ELSE DigitsVal(Unsigned(s))

FormatInt(n) == IF n < 0 THEN "-" \o ToString(0 - n) ELSE ToString(n)

\* fmt.Sprintf("%v", key)
Sprint(h) ==
    CASE h.t = "int" -> FormatInt(h.n)
      [] h.t = "float64" -> FormatInt(h.n)
      [] h.t = "string" -> h.s
      [] h.t = "bool" -> (IF h.b THEN "true" ELSE "false")
      [] h.t = "nil" -> "<nil>"
      [] OTHER -> "{}"

(***************************************************************************)
(* The value codec.                                                        *)
(***************************************************************************)
structpbNewValue(h) ==
    CASE h.t = "nil" -> Ok(PNull)
      [] h.t = "bool" -> Ok(PBool(h.b))
      [] h.t = "int" -> Ok(PNum(h.n))
      [] h.t = "float64" -> Ok(PNum(h.n))
      [] h.t = "string" -> Ok(PStr(h.s))
      [] OTHER -> Err

toProtoValue(h) ==
    CASE h.t = "int" -> Ok(PStr("num:" \o FormatInt(h.n)))
      [] h.t = "float64" -> Ok(PNum(h.n))
      [] h.t = "string" -> Ok(PStr(h.s))
      [] h.t = "bool" -> Ok(PBool(h.b))
      [] OTHER -> structpbNewValue(h)

HErr == [err |-> TRUE, val |-> HNil]

fromProtoValue(p) ==
    CASE p.k = "string" ->
           IF Len(p.s) > 4 /\ SubSeq(p.s, 1, 4) = "num:"
           THEN IF ParseIntOk(SubSeq(p.s, 5, Len(p.s)))
                THEN Ok(HInt(ParseIntVal(SubSeq(p.s, 5, Len(p.s)))))
                ELSE HErr
           ELSE Ok(HStr(p.s))
      [] p.k = "number" -> Ok(HFloat(p.n))
      [] p.k = "bool" -> Ok(HBool(p.b))
      [] OTHER -> Ok(HNil)

fromProtoRecord(r) ==
    IF \E f \in DOMAIN r : fromProtoValue(r[f]).err
    THEN [err |-> TRUE, val |-> <<>>]
    ELSE [err |-> FALSE, val |-> [f \in DOMAIN r |-> fromProtoValue(r[f]).val]]

\* Insert's rewrite of a string that parses as an integer (lines 189-193, 208-212)
StrPrefix(h) ==
    IF h.t = "string" /\ ParseIntOk(h.s) THEN HStr("str:" \o h.s) ELSE h

(***************************************************************************)
(* Go maps as functions.                                                   *)
(***************************************************************************)
EmptyMap == <<>>
Put(m, k, x) == [y \in (DOMAIN m) \cup {k} |-> IF y = k THEN x ELSE m[y]]
Del(m, k) == [y \in (DOMAIN m) \ {k} |-> m[y]]

(***************************************************************************)
(* The table file.  Its content is the base64 text of IV || AES-CTR of the *)
(* protobuf message Records, a repeated map entry (key, Record):           *)
(*   kind = "absent"   no file (before NewTable made it)                   *)
(*   kind = "empty"    a zero-length file (os.Create, or O_TRUNC with      *)
(*                     nothing written after it)                           *)
(*   kind = "data"     a complete blob holding `entries`                   *)
(*   kind = "partial"  a blob cut short by a failed write                  *)
(***************************************************************************)
AbsentFile == [kind |-> "absent", entries |-> {}]
EmptyFile == [kind |-> "empty", entries |-> {}]
PartialFile == [kind |-> "partial", entries |-> {}]

protoMarshal(recs) == {<<k, recs[k]>> : k \in DOMAIN recs}
protoUnmarshal(entries) ==
    [k \in {e[1] : e \in entries} |-> (CHOOSE e \in entries : e[1] = k)[2]]

readRecordsFromFile(f) ==
    CASE f.kind \in {"absent", "empty"} -> [err |-> FALSE, recs |-> EmptyMap]
      [] f.kind = "data" -> [err |-> FALSE, recs |-> protoUnmarshal(f.entries)]
      [] OTHER -> [err |-> TRUE, recs |-> EmptyMap]

\* What a call to writeRecordsToFile can do: succeed; fail before the file is
\* opened (marshal, encrypt or open error); fail after O_TRUNC with nothing
\* written; fail with part of the blob written.
WriteOutcomes == {"ok", "noopen", "truncated", "partial"}

\* the errors a write outcome adds to the errors of a batch call
WriteErrors(w) == IF w = "ok" THEN 0 ELSE 1

\* the write without line 735's assignment to t.Records
writeRecordsToFileKeepsRecords(T, records, w) ==
    CASE w = "ok" ->
           [err |-> FALSE,
            T |-> [T EXCEPT !.file = [kind |-> "data", entries |-> protoMarshal(records)]]]
      [] w = "noopen" -> [err |-> TRUE, T |-> T]
      [] w = "truncated" -> [err |-> TRUE, T |-> [T EXCEPT !.file = EmptyFile]]
      [] OTHER -> [err |-> TRUE, T |-> [T EXCEPT !.file = PartialFile]]

\* T is the table: [file, Records, Cache, Indexes]
writeRecordsToFile(T, records, w) ==
    CASE w = "ok" ->
           [err |-> FALSE,
            T |-> [T EXCEPT !.file = [kind |-> "data", entries |-> protoMarshal(records)],
                            !.Records = records]]
      [] w = "noopen" -> [err |-> TRUE, T |-> T]
      [] w = "truncated" -> [err |-> TRUE, T |-> [T EXCEPT !.file = EmptyFile]]
      [] OTHER -> [err |-> TRUE, T |-> [T EXCEPT !.file = PartialFile]]

(***************************************************************************)
(* Table operations.  Each takes the table T = [file, Records, Cache,      *)
(* Indexes] and the result rd of its readRecordsFromFile call, and returns *)
(* the error flag and the table it leaves behind.  The iteration order of  *)
(* a Go map is an input (order), as is the outcome w of the file write.    *)
(***************************************************************************)
PrimaryKey == "id"

Perms(S) ==
    {s \in [1..Cardinality(S) -> S] : \A x \in S : \E i \in 1..Cardinality(S) : s[i] = x}

Bucket(idx, f) == IF f \in DOMAIN idx THEN idx[f] ELSE <<>>

Fail(T) == [err |-> TRUE, T |-> T]

Insert(T, rd, record, w) ==
    IF rd.err THEN Fail(T)
    ELSE IF PrimaryKey \notin DOMAIN record THEN Fail(T)
    ELSE LET primaryKeyProtoValue == toProtoValue(StrPrefix(record[PrimaryKey]))
             primaryKeyString == GetStringValue(primaryKeyProtoValue.val)
             conv == [f \in DOMAIN record |-> toProtoValue(StrPrefix(record[f]))]
             protoRecord == [f \in DOMAIN record |-> conv[f].val]
         IN IF primaryKeyProtoValue.err THEN Fail(T)
            ELSE IF primaryKeyString = "<nil>" \/ primaryKeyString = "" THEN Fail(T)
            ELSE IF \E f \in DOMAIN record : conv[f].err THEN Fail(T)
            ELSE IF primaryKeyString \in DOMAIN rd.recs THEN Fail(T)
            ELSE writeRecordsToFile(
                     [T EXCEPT !.Cache = Put(T.Cache, primaryKeyString, protoRecord)],
                     Put(rd.recs, primaryKeyString, protoRecord), w)

\* the loop of InsertMany over records[i..]; all is allRecords.Records
RECURSIVE insertManyLoop(_, _, _, _, _)
insertManyLoop(T, all, records, i, w) ==
    IF i > Len(records) THEN writeRecordsToFile(T, all, w)
    ELSE LET record == records[i] IN
         IF PrimaryKey \notin DOMAIN record THEN Fail(T)
         ELSE LET primaryKeyProtoValue == toProtoValue(record[PrimaryKey])
                  primaryKeyString == GetStringValue(primaryKeyProtoValue.val)
                  conv == [f \in DOMAIN record |-> toProtoValue(record[f])]
                  protoRecord == [f \in DOMAIN record |-> conv[f].val]
              IN IF primaryKeyProtoValue.err THEN Fail(T)
                 ELSE IF primaryKeyString = "<nil>" \/ primaryKeyString = "" THEN Fail(T)
                 ELSE IF \E f \in DOMAIN record : conv[f].err THEN Fail(T)
                 ELSE IF primaryKeyString \in DOMAIN all THEN Fail(T)
                 ELSE insertManyLoop(
                          [T EXCEPT !.Cache = Put(T.Cache, primaryKeyString, protoRecord)],
                          Put(all, primaryKeyString, protoRecord), records, i + 1, w)

InsertMany(T, rd, records, w) ==
    IF rd.err THEN Fail(T) ELSE insertManyLoop(T, rd.recs, records, 1, w)

\* Select returns the record as well: val is the decoded record
Select(T, key) ==
    LET keyStr == Sprint(key)
        rd == readRecordsFromFile(T.file)
    IN IF keyStr \in DOMAIN T.Cache
       THEN [err |-> fromProtoRecord(T.Cache[keyStr]).err, T |-> T,
             val |-> fromProtoRecord(T.Cache[keyStr]).val]
       ELSE IF rd.err \/ keyStr \notin DOMAIN rd.recs
       THEN [err |-> TRUE, T |-> T, val |-> <<>>]
       ELSE [err |-> fromProtoRecord(rd.recs[keyStr]).err,
             T |-> [T EXCEPT !.Cache = Put(T.Cache, keyStr, rd.recs[keyStr])],
             val |-> fromProtoRecord(rd.recs[keyStr]).val]

(***************************************************************************)
(* SelectAll and SelectWithFilter read the file.  Their result is a slice  *)
(* in the iteration order of the decoded map; it is kept here as the map   *)
(* from the key of each returned record to its decoded form.               *)
(***************************************************************************)
SelectAll(T) ==
    LET rd == readRecordsFromFile(T.file) IN
    IF rd.err \/ \E k \in DOMAIN rd.recs : fromProtoRecord(rd.recs[k]).err
    THEN [err |-> TRUE, val |-> EmptyMap]
    ELSE [err |-> FALSE,
          val |-> [k \in DOMAIN rd.recs |-> fromProtoRecord(rd.recs[k]).val]]

GetNumberValue(p) == IF p.k = "number" THEN p.n ELSE 0
GetBoolValue(p) == IF p.k = "bool" THEN p.b ELSE FALSE

\* Equal switches on the kind of value1 and reads value2 through the getter
\* of that kind, which gives the zero value when value2 is of another kind
Equal(value1, value2) ==
    CASE value1.k = "number" -> GetNumberValue(value1) = GetNumberValue(value2)
      [] value1.k = "string" -> GetStringValue(value1) = GetStringValue(value2)
      [] value1.k = "bool" -> GetBoolValue(value1) = GetBoolValue(value2)
      [] OTHER -> FALSE

\* isEqual of joins.go, on two fields that exist: it reads both values as
\* strings
isEqual(val1, val2) == GetStringValue(val1) = GetStringValue(val2)

\* the inner loop of SelectWithFilter on one record, the filters coming in
\* the order given: "error" when structpb.NewValue rejects a filter value
\* that is reached, "skip" at the first filter the record does not pass
RECURSIVE filterRecord(_, _, _)
filterRecord(record, filters, order) ==
    IF order = <<>> THEN "match"
    ELSE LET field == Head(order)
             protoValue == structpbNewValue(filters[field])
         IN IF protoValue.err THEN "error"
            ELSE IF field \notin DOMAIN record \/ ~Equal(record[field], protoValue.val)
            THEN "skip"
            ELSE filterRecord(record, filters, Tail(order))

\* forder[k] is the order in which the filters come for the record of key k
SelectWithFilter(T, filters, forder) ==
    LET rd == readRecordsFromFile(T.file)
        verdict == [k \in DOMAIN rd.recs |-> filterRecord(rd.recs[k], filters, forder[k])]
        matched == {k \in DOMAIN rd.recs : verdict[k] = "match"}
    IN IF rd.err THEN [err |-> TRUE, val |-> EmptyMap]
       ELSE IF \E k \in DOMAIN rd.recs : verdict[k] = "error"
       THEN [err |-> TRUE, val |-> EmptyMap]
       ELSE IF \E k \in matched : fromProtoRecord(rd.recs[k]).err
       THEN [err |-> TRUE, val |-> EmptyMap]
       ELSE [err |-> FALSE,
             val |-> [k \in matched |-> fromProtoRecord(rd.recs[k]).val]]

(***************************************************************************)
(* Query (query.go).  It reads t.Records and t.Indexes, takes no lock and  *)
(* returns stored records, not decoded ones.                               *)
(***************************************************************************)
\* the bytes of the strings of the model, in their order
Bytes == "-0123456789:<>abcdefghijklmnopqrstuvwxyz"

ByteOf(c) == CHOOSE i \in 1..Len(Bytes) : CharAt(Bytes, i) = c

\* Go's s1 < s2 on strings
RECURSIVE StringLess(_, _)
StringLess(s1, s2) ==
    IF Len(s2) = 0 THEN FALSE
    ELSE IF Len(s1) = 0 THEN TRUE
    ELSE IF CharAt(s1, 1) # CharAt(s2, 1)
    THEN ByteOf(CharAt(s1, 1)) < ByteOf(CharAt(s2, 1))
    ELSE StringLess(SubSeq(s1, 2, Len(s1)), SubSeq(s2, 2, Len(s2)))

\* the fields of a query are Filters, SortBy, Limit and Offset
\* selectBestIndex, the filter fields coming in the order given; the
\* selectivity len(index)/len(t.Records) is compared through its numerator,
\* and no index is below the initial 1.0 when t.Records is empty
RECURSIVE selectBestIndexLoop(_, _, _, _)
selectBestIndexLoop(T, order, bestIndex, bestLen) ==
    IF order = <<>> THEN bestIndex
    ELSE LET field == Head(order) IN
         IF field \in DOMAIN T.Indexes /\ Len(T.Indexes[field]) < bestLen
         THEN selectBestIndexLoop(T, Tail(order), field, Len(T.Indexes[field]))
         ELSE selectBestIndexLoop(T, Tail(order), bestIndex, bestLen)

\* a planner that takes the last filter field whose index is below 1.0,
\* whatever the selectivity of the others
selectBestIndexAny(T, query, order) ==
    LET below == {i \in 1..Len(order) :
                     /\ order[i] \in DOMAIN T.Indexes
                     /\ Len(T.Indexes[order[i]]) < Cardinality(DOMAIN T.Records)}
    IN IF below = {} THEN "" ELSE order[CHOOSE i \in below : \A j \in below : j <= i]

selectBestIndex(T, query, order) ==
    selectBestIndexLoop(T, order, "", Cardinality(DOMAIN T.Records))

generateExecutionPlan(T, query, order) ==
    [IndexToUse |-> selectBestIndex(T, query, order), Filters |-> query.Filters,
     SortBy |-> query.SortBy, Limit |-> query.Limit, Offset |-> query.Offset]

match(record, filters) ==
    \A field \in DOMAIN filters :
        /\ ~structpbNewValue(filters[field]).err
        /\ field \in DOMAIN record
        /\ Equal(record[field], structpbNewValue(filters[field]).val)

\* record.Fields[f].GetNumberValue() and GetStringValue(), 0 and "" when the
\* record has no field f
FieldNumber(record, f) == IF f \in DOMAIN record THEN GetNumberValue(record[f]) ELSE 0
FieldString(record, f) == IF f \in DOMAIN record THEN GetStringValue(record[f]) ELSE ""

\* the less function handed to sort.Slice
less(plan, a, b) ==
    IF plan.SortBy # "" THEN FieldNumber(a, plan.SortBy) < FieldNumber(b, plan.SortBy)
    ELSE StringLess(FieldString(a, PrimaryKey), FieldString(b, PrimaryKey))

\* the records executePlan scans that match, rorder being the iteration
\* order of t.Records
scanPlan(T, plan, rorder) ==
    IF plan.IndexToUse # ""
    THEN SelectSeq(T.Indexes[plan.IndexToUse], LAMBDA record : match(record, plan.Filters))
    ELSE SelectSeq([i \in 1..Len(rorder) |-> T.Records[rorder[i]]],
                   LAMBDA record : match(record, plan.Filters))

\* sort.Slice is not stable: it leaves some permutation that less orders
sortSlice(results, perm) == [i \in 1..Len(results) |-> results[perm[i]]]

IsSorted(plan, results) ==
    \A i, j \in 1..Len(results) : i < j => ~less(plan, results[j], results[i])

executePlan(T, plan, rorder, perm) ==
    LET results == sortSlice(scanPlan(T, plan, rorder), perm)
        skipped == IF plan.Offset > 0
                   THEN (IF plan.Offset >= Len(results) THEN <<>>
                         ELSE SubSeq(results, plan.Offset + 1, Len(results)))
                   ELSE results
    IN IF plan.Limit > 0 /\ plan.Limit < Len(skipped)
       THEN SubSeq(skipped, 1, plan.Limit)
       ELSE skipped

Query(T, query, order, rorder, perm) ==
    executePlan(T, generateExecutionPlan(T, query, order), rorder, perm)

(***************************************************************************)
(* Index maintenance of Update and UpdateMany.  A bucket holds pointers to *)
(* Record objects, and Update compares pointers (r.Fields[field] !=        *)
(* oldVal).  Objects are named relative to the running call: an entry of   *)
(* t.Indexes that was there when the call began is Retained (allocated by  *)
(* an earlier call), and Own(k) is the record of key k that this call's    *)
(* readRecordsFromFile decoded.  When the call returns, an Own(k) entry    *)
(* holds whatever the call left in that record.                            *)
(***************************************************************************)
Retained(r) == [own |-> FALSE, key |-> "", rec |-> r]
Own(k) == [own |-> TRUE, key |-> k, rec |-> EmptyMap]

TagIndexes(idx) ==
    [f \in DOMAIN idx |-> [i \in 1..Len(idx[f]) |-> Retained(idx[f][i])]]
ResolveIndexes(idx, all) ==
    [f \in DOMAIN idx |->
        [i \in 1..Len(idx[f]) |->
            IF idx[f][i].own THEN all[idx[f][i].key] ELSE idx[f][i].rec]]

\* r.Fields[field] == oldVal, oldVal being existingRecord.Fields[field] of the
\* record this call decoded under keyStr: true of that record object only
SameValuePointer(e, keyStr) == e.own /\ e.key = keyStr

removeOldValue(bucket, keyStr) ==
    LET Keep(e) == ~SameValuePointer(e, keyStr) IN SelectSeq(bucket, Keep)

\* the loop over the fields of one updates map; ret = TRUE returns at the
\* first conversion error (Update), FALSE records it and goes on (UpdateMany)
RECURSIVE updateFields(_, _, _, _, _, _, _)
updateFields(order, updates, keyStr, all, idx, ret, nerr) ==
    IF order = <<>> THEN [nerr |-> nerr, all |-> all, idx |-> idx]
    ELSE LET field == Head(order)
             existingRecord == all[keyStr]
             idx1 == IF field \in DOMAIN existingRecord
                     THEN Put(idx, field, removeOldValue(Bucket(idx, field), keyStr))
                     ELSE idx
             newVal == structpbNewValue(updates[field])
         IN IF newVal.err
            THEN IF ret THEN [nerr |-> nerr + 1, all |-> all, idx |-> idx1]
                 ELSE updateFields(Tail(order), updates, keyStr, all, idx1, ret, nerr + 1)
            ELSE updateFields(Tail(order), updates, keyStr,
                     [all EXCEPT ![keyStr] = Put(existingRecord, field, newVal.val)],
                     Put(idx1, field, Append(Bucket(idx1, field), Own(keyStr))),
                     ret, nerr)

Update(T, rd, key, updates, order, w) ==
    LET keyStr == Sprint(key) IN
    IF rd.err THEN Fail(T)
    ELSE IF keyStr \notin DOMAIN rd.recs THEN Fail(T)
    ELSE LET u == updateFields(order, updates, keyStr, rd.recs,
                               TagIndexes(T.Indexes), TRUE, 0)
             T1 == [T EXCEPT !.Indexes = ResolveIndexes(u.idx, u.all)]
         IN IF u.nerr > 0 THEN Fail(T1)
            ELSE writeRecordsToFile(
                     [T1 EXCEPT !.Cache = Put(T.Cache, keyStr, u.all[keyStr])],
                     u.all, w)

\* the loop of UpdateMany over the keys of updates, in map order korder;
\* forder[k] is the order in which the fields of updates[k] come
RECURSIVE updateManyLoop(_, _, _, _, _, _, _)
updateManyLoop(korder, updates, forder, all, idx, cache, nerr) ==
    IF korder = <<>> THEN [nerr |-> nerr, all |-> all, idx |-> idx, cache |-> cache]
    ELSE LET keyStr == Head(korder) IN
         IF keyStr \notin DOMAIN all
         THEN updateManyLoop(Tail(korder), updates, forder, all, idx, cache, nerr + 1)
         ELSE LET u == updateFields(forder[keyStr], updates[keyStr], keyStr, all,
                                    idx, FALSE, 0)
              IN updateManyLoop(Tail(korder), updates, forder, u.all, u.idx,
                                Put(cache, keyStr, keyStr), nerr + u.nerr)

\* returns the number of errors in nerr; the cache entries written are
\* pointers to the records of `all`, resolved at the end
UpdateMany(T, rd, updates, korder, forder, w) ==
    IF rd.err THEN [nerr |-> 1, T |-> T]
    ELSE LET u == updateManyLoop(korder, updates, forder, rd.recs,
                                 TagIndexes(T.Indexes), EmptyMap, 0)
             T1 == [T EXCEPT !.Indexes = ResolveIndexes(u.idx, u.all),
                             !.Cache = [k \in (DOMAIN T.Cache) \cup (DOMAIN u.cache) |->
                                           IF k \in DOMAIN u.cache THEN u.all[k]
                                           ELSE T.Cache[k]]]
             wr == writeRecordsToFile(T1, u.all, w)
         IN [nerr |-> u.nerr + (IF wr.err THEN 1 ELSE 0), T |-> wr.T]

\* rec.Fields[t.PrimaryKey] exists and its string value is keyStr
HasKey(rec, keyStr) ==
    PrimaryKey \in DOMAIN rec /\ GetStringValue(rec[PrimaryKey]) = keyStr

\* the inner loop of Delete: drop the first entry of the bucket that matches
removeFirst(idxSlice, keyStr) ==
    IF \E i \in 1..Len(idxSlice) : HasKey(idxSlice[i], keyStr)
    THEN LET i == CHOOSE j \in 1..Len(idxSlice) :
                      /\ HasKey(idxSlice[j], keyStr)
                      /\ \A h \in 1..(j - 1) : ~HasKey(idxSlice[h], keyStr)
         IN SubSeq(idxSlice, 1, i - 1) \o SubSeq(idxSlice, i + 1, Len(idxSlice))
    ELSE idxSlice

\* the loop over record.Fields of Delete and DeleteMany (lines 591-602)
deleteFromIndexes(idx, record, keyStr) ==
    LET after(f) == IF f \in DOMAIN record THEN removeFirst(idx[f], keyStr) ELSE idx[f]
    IN [f \in {g \in DOMAIN idx : g \notin DOMAIN record \/ Len(after(g)) > 0} |-> after(f)]

Delete(T, rd, key, w) ==
    LET keyStr == Sprint(key) IN
    IF rd.err THEN Fail(T)
    ELSE IF keyStr \notin DOMAIN rd.recs THEN Fail(T)
    ELSE writeRecordsToFile(
             [T EXCEPT !.Cache = Del(T.Cache, keyStr),
                       !.Indexes = deleteFromIndexes(T.Indexes, rd.recs[keyStr], keyStr)],
             Del(rd.recs, keyStr), w)

RECURSIVE deleteManyLoop(_, _, _, _, _, _)
deleteManyLoop(T, all, keys, i, nerr, w) ==
    IF i > Len(keys)
    THEN LET wr == writeRecordsToFile(T, all, w)
         IN [nerr |-> nerr + (IF wr.err THEN 1 ELSE 0), T |-> wr.T]
    ELSE LET keyProtoValue == toProtoValue(keys[i])
             keyStr == GetStringValue(keyProtoValue.val)
         IN IF keyProtoValue.err \/ keyStr \notin DOMAIN all
            THEN deleteManyLoop(T, all, keys, i + 1, nerr + 1, w)
            ELSE deleteManyLoop(
                     [T EXCEPT !.Cache = Del(T.Cache, keyStr),
                               !.Indexes = deleteFromIndexes(T.Indexes, all[keyStr], keyStr)],
                     Del(all, keyStr), keys, i + 1, nerr, w)

\* a DeleteMany that gives the batch up, writing nothing, when a key fails
DeleteManyAllOrNothing(T, rd, keys, w) ==
    IF rd.err THEN [nerr |-> 1, T |-> T]
    ELSE LET r == deleteManyLoop(T, rd.recs, keys, 1, 0, w)
         IN IF r.nerr > WriteErrors(w) THEN [nerr |-> r.nerr, T |-> T] ELSE r

DeleteMany(T, rd, keys, w) ==
    IF rd.err THEN [nerr |-> 1, T |-> T]
    ELSE deleteManyLoop(T, rd.recs, keys, 1, 0, w)

\* the loop of LoadIndexes and ResetAndLoadIndexes over the decoded records,
\* in map order korder: a record is appended to the bucket of each field whose
\* string value is not empty
RECURSIVE appendToIndexes(_, _, _)
appendToIndexes(idx, recs, korder) ==
    IF korder = <<>> THEN idx
    ELSE LET record == recs[Head(korder)]
             hit == {f \in DOMAIN record : GetStringValue(record[f]) # ""}
         IN appendToIndexes(
                [f \in (DOMAIN idx) \cup hit |->
                    IF f \in hit THEN Append(Bucket(idx, f), record) ELSE idx[f]],
                recs, Tail(korder))

LoadIndexes(T, rd, korder) ==
    IF rd.err THEN Fail(T)
    ELSE [err |-> FALSE,
          T |-> [T EXCEPT !.Indexes = appendToIndexes(T.Indexes, rd.recs, korder)]]

\* a reload that keeps the entries t.Indexes holds
ResetAndLoadIndexesKeeping(T, rd, korder) ==
    IF rd.err THEN Fail(T)
    ELSE [err |-> FALSE,
          T |-> [T EXCEPT !.Indexes = appendToIndexes(T.Indexes, rd.recs, korder)]]

ResetAndLoadIndexes(T, rd, korder) ==
    IF rd.err THEN Fail([T EXCEPT !.Indexes = EmptyMap])
    ELSE [err |-> FALSE,
          T |-> [T EXCEPT !.Indexes = appendToIndexes(EmptyMap, rd.recs, korder)]]

(***************************************************************************)
(* Construction.  NewTable makes the maps, writes an empty Records message *)
(* when the file is missing and loads the indexes; a failure there ends    *)
(* the process (log.Fatalf).  CreateTable then truncates the new file with *)
(* os.Create; LoadTables reads the file once more into Records.            *)
(***************************************************************************)
NewTable(f, korder) ==
    LET T0 == [file |-> f, Records |-> EmptyMap, Cache |-> EmptyMap, Indexes |-> EmptyMap]
        T1 == IF f.kind = "absent" THEN writeRecordsToFile(T0, EmptyMap, "ok").T ELSE T0
    IN LoadIndexes(T1, readRecordsFromFile(T1.file), korder).T

CreateTable == [NewTable(AbsentFile, <<>>) EXCEPT !.file = EmptyFile]

\* the .meta file CreateTable writes: json.Marshal of {"PrimaryKey": primaryKey}
\* (a name that passed ValidFilename needs no escaping)
jsonMarshalMeta(primaryKey) == "{\"PrimaryKey\":\"" \o primaryKey \o "\"}"

\* metaData["PrimaryKey"] after json.Unmarshal of the .meta file
jsonUnmarshalMeta(bytes) == SubSeq(bytes, 16, Len(bytes) - 2)

\* the primary key LoadTables gives the table it loads
LoadedPrimaryKey == jsonUnmarshalMeta(jsonMarshalMeta(PrimaryKey))

\* a LoadTables that makes the data file anew, as CreateTable does
LoadTablesCreating(f, korder) ==
    [NewTable(f, korder) EXCEPT !.file = EmptyFile]

LoadTables(f, korder) ==
    [NewTable(f, korder) EXCEPT !.Records = readRecordsFromFile(f).recs]

(***************************************************************************)
(* Transaction: Start locks the transaction's own mutex and clones the     *)
(* decoded file into OriginalRecords; Commit unlocks; Rollback takes the   *)
(* table lock and writes OriginalRecords back.  The wrappers run Start,    *)
(* the mutation, then Rollback on an error (its own error is dropped) or   *)
(* Commit.                                                                 *)
(***************************************************************************)
Start(T) == readRecordsFromFile(T.file)

Rollback(T, original, w) == writeRecordsToFile(T, original, w)

InsertWithTransaction(T, record, w, wr) ==
    LET st == Start(T)
        r == Insert(T, readRecordsFromFile(T.file), record, w)
    IN IF st.err THEN Fail(T)
       ELSE IF r.err THEN Fail(Rollback(r.T, st.recs, wr).T)
       ELSE r

UpdateWithTransaction(T, key, updates, order, w, wr) ==
    LET st == Start(T)
        r == Update(T, readRecordsFromFile(T.file), key, updates, order, w)
    IN IF st.err THEN Fail(T)
       ELSE IF r.err THEN Fail(Rollback(r.T, st.recs, wr).T)
       ELSE r

DeleteWithTransaction(T, key, w, wr) ==
    LET st == Start(T)
        r == Delete(T, readRecordsFromFile(T.file), key, w)
    IN IF st.err THEN Fail(T)
       ELSE IF r.err THEN Fail(Rollback(r.T, st.recs, wr).T)
       ELSE r

(***************************************************************************)
(* Bounds and inputs of the calls.                                         *)
(***************************************************************************)
\* the longest index bucket an Update may still append to
MaxBucket == 2
\* the number of file writes that may fail in one run
MaxFaults == 1
\* the number of calls made between a Transaction's Start and its end
MaxTxCalls == 1

InsertRecords ==
    { [id |-> HStr("a"), v |-> HStr("x")],
      [id |-> HInt(1), v |-> HStr("x")],
      [v |-> HStr("x")],
      [id |-> HStr("")],
      [id |-> HStr("b"), v |-> HBad] }

InsertBatches ==
    { <<[id |-> HStr("a"), v |-> HStr("x")]>>,
      <<[id |-> HInt(1), v |-> HStr("x")], [id |-> HStr("a"), v |-> HStr("x")]>> }

KeyInputs == {HStr("a"), HInt(1), HStr("num:1")}

UpdateInputs ==
    { [v |-> HStr("y")],
      [id |-> HBad, v |-> HStr("y")] }

UpdateBatches ==
    { [a |-> [v |-> HStr("y")]],
      [a |-> [v |-> HBad]],
      ("a" :> [v |-> HStr("y")]) @@ ("num:1" :> [v |-> HStr("y")]) }

DeleteBatches ==
    { <<HStr("a")>>, <<HInt(1)>>, <<HStr("a"), HStr("num:1")>> }

\* the number of records the table holds in the runs that vary the values
MaxStored == 2

\* the records of a table in the runs of the planner
MaxRows == 3

\* the calls of the server in one run
MaxServerCalls == 10

\* the goroutines that call the table at the same time
Goroutines == {"g1", "g2"}
\* the number of calls the goroutines begin in one run
MaxCalls == 4

\* a goroutine between two calls
NoCall == [op |-> "none", key |-> HNil, rec |-> <<>>]
NoPending == [file |-> EmptyFile, Records |-> EmptyMap]
\* no call of another goroutine has returned since this one began
NoneSeen == [set |-> FALSE, tx |-> FALSE, file |-> EmptyFile]
Idle == [pc |-> "idle", call |-> NoCall, tx |-> FALSE, pending |-> NoPending,
         snapshot |-> EmptyMap, res |-> "none", val |-> <<>>, concurrent |-> FALSE,
         plan |-> "", rows |-> <<>>, seen |-> NoneSeen,
         mutex |-> "unlocked", unlocks |-> 0, moments |-> {}, captured |-> <<>>]

MutationCalls ==
    { [op |-> "Insert", key |-> HNil, rec |-> [id |-> HStr("a"), v |-> HStr("x")]],
      [op |-> "Insert", key |-> HNil, rec |-> [id |-> HStr("b"), v |-> HStr("x")]],
      [op |-> "Insert", key |-> HNil, rec |-> [v |-> HStr("x")]],
      [op |-> "Update", key |-> HStr("a"), rec |-> [v |-> HStr("y")]],
      [op |-> "Update", key |-> HStr("a"), rec |-> [v |-> HBad]],
      [op |-> "Delete", key |-> HStr("a"), rec |-> <<>>] }

SelectCalls == { [op |-> "Select", key |-> HStr("a"), rec |-> <<>>] }

\* the key strings a Select of the model can ask for
KeyStrings == {Sprint(k) : k \in KeyInputs}

(***************************************************************************)
(* Server and Database.  The server directory holds one directory for each *)
(* database and in it the files <table>.dat and <table>.meta; backup.zip   *)
(* lies outside of it.  A Database is its Tables and its lock, a Table of  *)
(* the catalog its fields in memory: its file is the one at its path.      *)
(***************************************************************************)
FilenameChars == "abcdefghijklmnopqrstuvwxyzABCDEFGHIJKLMNOPQRSTUVWXYZ0123456789-_"

\* ValidFilename: the name matches ^[a-zA-Z0-9-_]+$
ValidFilename(name) ==
    /\ Len(name) > 0
    /\ \A i \in 1..Len(name) :
           \E j \in 1..Len(FilenameChars) : CharAt(name, i) = CharAt(FilenameChars, j)

HasSuffix(s, suffix) ==
    Len(s) >= Len(suffix) /\ SubSeq(s, Len(s) - Len(suffix) + 1, Len(s)) = suffix

TrimSuffix(s, suffix) ==
    IF HasSuffix(s, suffix) THEN SubSeq(s, 1, Len(s) - Len(suffix)) ELSE s

\* filepath.Join and filepath.Rel, on paths relative to the server directory
Join(dir, name) == dir \o "/" \o name
LastSlash(path) ==
    CHOOSE i \in 1..Len(path) :
        CharAt(path, i) = "/" /\ \A j \in (i + 1)..Len(path) : CharAt(path, j) # "/"
Dir(path) == SubSeq(path, 1, LastSlash(path) - 1)
Base(path) == SubSeq(path, LastSlash(path) + 1, Len(path))

\* the names of S in the order os.ReadDir returns them
RECURSIVE SortedNames(_)
SortedNames(S) ==
    IF S = {} THEN <<>>
    ELSE LET first == CHOOSE x \in S : \A y \in S \ {x} : StringLess(x, y)
         IN <<first>> \o SortedNames(S \ {first})

MetaFile(bytes) == [kind |-> "meta", entries |-> {}, bytes |-> bytes]

NewDatabase == [Tables |-> EmptyMap, lock |-> "none"]

NewServer == EmptyMap

NoServerDir == [exists |-> FALSE, dirs |-> EmptyMap]

NoBackup == [exists |-> FALSE, entries |-> EmptyMap]

FileAt(disk, dbName, fileName) ==
    IF disk.exists /\ dbName \in DOMAIN disk.dirs /\ fileName \in DOMAIN disk.dirs[dbName]
    THEN disk.dirs[dbName][fileName]
    ELSE AbsentFile

MkdirAll(disk, dbName) ==
    [exists |-> TRUE,
     dirs |-> IF dbName \in DOMAIN disk.dirs THEN disk.dirs
              ELSE Put(disk.dirs, dbName, EmptyMap)]

\* the file written at a path whose directory exists
WriteFile(disk, dbName, fileName, content) ==
    [disk EXCEPT !.dirs = Put(disk.dirs, dbName, Put(disk.dirs[dbName], fileName, content))]

\* the Table of the catalog, from the table NewTable returns
TableObject(T, primaryKey) ==
    [PrimaryKey |-> primaryKey, Records |-> T.Records, Cache |-> T.Cache,
     Indexes |-> T.Indexes]

\* the table of the catalog with its file
TableAt(S, disk, dbName, tableName) ==
    [file |-> FileAt(disk, dbName, tableName \o ".dat"),
     Records |-> S[dbName].Tables[tableName].Records,
     Cache |-> S[dbName].Tables[tableName].Cache,
     Indexes |-> S[dbName].Tables[tableName].Indexes]

\* a CreateTable that does not look whether the table exists
createTableUnchecked(db, dbName, disk, tableName, primaryKey) ==
    LET disk1 == MkdirAll(disk, dbName)
        datName == tableName \o ".dat"
        table == NewTable(FileAt(disk1, dbName, datName), <<>>)
        disk2 == WriteFile(disk1, dbName, datName, table.file)
        disk3 == WriteFile(disk2, dbName, tableName \o ".meta",
                           MetaFile(jsonMarshalMeta(primaryKey)))
        disk4 == WriteFile(disk3, dbName, datName, EmptyFile)
    IN [err |-> FALSE,
        db |-> [db EXCEPT !.Tables =
                   Put(db.Tables, tableName, TableObject(table, primaryKey))],
        disk |-> disk4]

\* What the file operations of CreateTable can do: all succeed; os.MkdirAll
\* fails; os.WriteFile of the .meta file fails and leaves no file; os.Create
\* of the .dat file fails.
CreateOutcomes == {"ok", "mkdir", "meta", "create"}

\* the part of Database.CreateTable that runs with db.Lock held, the outcome
\* of its file operations being w
createTableSteps(db, dbName, disk, tableName, primaryKey, w) ==
    IF tableName \in DOMAIN db.Tables THEN [err |-> TRUE, db |-> db, disk |-> disk]
    ELSE IF w = "mkdir" THEN [err |-> TRUE, db |-> db, disk |-> disk]
    ELSE LET disk1 == MkdirAll(disk, dbName)
             datName == tableName \o ".dat"
             table == NewTable(FileAt(disk1, dbName, datName),
                               SortedNames(DOMAIN readRecordsFromFile(
                                   FileAt(disk1, dbName, datName)).recs))
             disk2 == WriteFile(disk1, dbName, datName, table.file)
             registered == [db EXCEPT !.Tables =
                               Put(db.Tables, tableName, TableObject(table, primaryKey))]
             disk3 == WriteFile(disk2, dbName, tableName \o ".meta",
                                MetaFile(jsonMarshalMeta(primaryKey)))
             disk4 == WriteFile(disk3, dbName, datName, EmptyFile)
         IN IF w = "meta" THEN [err |-> TRUE, db |-> registered, disk |-> disk2]
            ELSE IF w = "create" THEN [err |-> TRUE, db |-> registered, disk |-> disk3]
            ELSE [err |-> FALSE, db |-> registered, disk |-> disk4]

\* the same when no file operation fails
createTableLocked(db, dbName, disk, tableName, primaryKey) ==
    createTableSteps(db, dbName, disk, tableName, primaryKey, "ok")

\* Database.CreateTable
DatabaseCreateTable(db, dbName, disk, tableName, primaryKey) ==
    IF ~ValidFilename(tableName) THEN [err |-> TRUE, db |-> db, disk |-> disk]
    ELSE IF ~ValidFilename(primaryKey) THEN [err |-> TRUE, db |-> db, disk |-> disk]
    ELSE createTableLocked(db, dbName, disk, tableName, primaryKey)

\* Server.CreateDatabase
CreateDatabase(S, name) ==
    IF name \in DOMAIN S THEN [err |-> TRUE, S |-> S]
    ELSE [err |-> FALSE, S |-> Put(S, name, NewDatabase)]

\* the loop of Database.LoadTables over the files of the database directory
RECURSIVE loadTablesLoop(_, _, _)
loadTablesLoop(names, dir, db) ==
    IF names = <<>> THEN [err |-> FALSE, db |-> db]
    ELSE IF ~HasSuffix(Head(names), ".dat") THEN loadTablesLoop(Tail(names), dir, db)
    ELSE LET tableName == TrimSuffix(Head(names), ".dat")
             metaName == tableName \o ".meta"
             records == readRecordsFromFile(dir[Head(names)])
             table == LoadTables(dir[Head(names)], SortedNames(DOMAIN records.recs))
         IN IF metaName \notin DOMAIN dir THEN [err |-> TRUE, db |-> db]
            ELSE IF records.err THEN [err |-> TRUE, db |-> db]
            ELSE loadTablesLoop(Tail(names), dir,
                     [db EXCEPT !.Tables =
                         Put(db.Tables, tableName,
                             TableObject(table, jsonUnmarshalMeta(dir[metaName].bytes)))])

\* the loop of Server.LoadDatabases over the directories of the server directory
RECURSIVE loadDatabasesLoop(_, _, _)
loadDatabasesLoop(names, disk, S) ==
    IF names = <<>> THEN [err |-> FALSE, S |-> S]
    ELSE LET dir == disk.dirs[Head(names)]
             r == loadTablesLoop(SortedNames(DOMAIN dir), dir, NewDatabase)
         IN IF r.err THEN [err |-> TRUE, S |-> S]
            ELSE loadDatabasesLoop(Tail(names), disk, Put(S, Head(names), r.db))

\* Server.LoadDatabases
LoadDatabases(S, disk) ==
    IF ~disk.exists THEN [err |-> TRUE, S |-> S]
    ELSE loadDatabasesLoop(SortedNames(DOMAIN disk.dirs), disk, S)

\* Server.Initialize
Initialize(S, disk) ==
    LET disk1 == [disk EXCEPT !.exists = TRUE]
        r == LoadDatabases(S, disk1)
    IN [err |-> r.err, S |-> r.S, disk |-> disk1]

\* the loop of Server.BackupDatabases over s.Databases, in map order: it walks
\* the directory of each database and copies its regular files into the zip
RECURSIVE backupLoop(_, _, _)
backupLoop(order, disk, entries) ==
    IF order = <<>> THEN [err |-> FALSE, zip |-> [exists |-> TRUE, entries |-> entries]]
    ELSE LET dbName == Head(order) IN
         IF ~disk.exists \/ dbName \notin DOMAIN disk.dirs
         THEN [err |-> TRUE, zip |-> [exists |-> TRUE, entries |-> entries]]
         ELSE LET dir == disk.dirs[dbName]
                  paths == {Join(dbName, fileName) : fileName \in DOMAIN dir}
              IN backupLoop(Tail(order), disk,
                     [path \in (DOMAIN entries) \cup paths |->
                         IF path \in paths THEN dir[Base(path)] ELSE entries[path]])

\* Server.BackupDatabases
BackupDatabases(S, disk, order) == backupLoop(order, disk, EmptyMap)

\* the loop of Server.RestoreDatabases over the entries of the zip
RECURSIVE restoreLoop(_, _, _)
restoreLoop(paths, zip, disk) ==
    IF paths = <<>> THEN disk
    ELSE restoreLoop(Tail(paths), zip,
             WriteFile(MkdirAll(disk, Dir(Head(paths))), Dir(Head(paths)),
                       Base(Head(paths)), zip.entries[Head(paths)]))

\* a RestoreDatabases that writes the files and does not load them
RestoreDatabasesFilesOnly(S, disk, zip) ==
    IF ~zip.exists THEN [err |-> TRUE, S |-> S, disk |-> disk]
    ELSE [err |-> FALSE, S |-> S,
          disk |-> restoreLoop(SortedNames(DOMAIN zip.entries), zip, disk)]

\* Server.RestoreDatabases
RestoreDatabases(S, disk, zip) ==
    IF ~zip.exists THEN [err |-> TRUE, S |-> S, disk |-> disk]
    ELSE LET disk1 == restoreLoop(SortedNames(DOMAIN zip.entries), zip, disk)
             r == LoadDatabases(S, disk1)
         IN [err |-> r.err, S |-> r.S, disk |-> disk1]

\* the callers of Database.CreateTable
Callers == {"c1", "c2"}

NotCalling ==
    [pc |-> "idle", db |-> "", tableName |-> "", primaryKey |-> "", res |-> "",
     absent |-> FALSE, rivals |-> {}]

NoSnapshot == [trace |-> "none", catalog |-> EmptyMap, selectAll |-> EmptyMap]

(***************************************************************************)
(* State.                                                                  *)
(***************************************************************************)
VARIABLES
    file,             \* content of the table's .dat file
    Records,          \* Table.Records
    Cache,            \* Table.Cache
    Indexes,          \* Table.Indexes
    txLocked,         \* the mutex of the caller's Transaction is locked
    OriginalRecords,  \* Transaction.OriginalRecords
    lastOp,           \* the call that returned last
    result,           \* what it returned: "ok" or "err"
    faults,           \* the number of file writes that failed
    txCalls,          \* the number of calls since the Transaction's Start
    txTrace,          \* history: what ran since the Transaction's Start
    selectAtStart,    \* history: the result of Select(k) for each k at Start
    goroutines,       \* each goroutine's call and its position in it
    tableLock,        \* the table's RWMutex: its writer and its readers
    serialFile,       \* history: the file the calls give when applied one at a
                      \* time in the order they took the exclusive lock
    ncalls,           \* the number of calls the goroutines, or the server's callers, have begun
    t2,               \* the second table of a JoinTables call
    Databases,        \* Server.Databases: each Database's Tables and its lock
    serverDir,        \* the directories and files under the server directory
    backupZip,        \* the entries of backup.zip
    callers,          \* each caller of Database.CreateTable and its position
    atBackup          \* history: the catalog and the records when the backup was made

vars == <<file, Records, Cache, Indexes, txLocked, OriginalRecords,
          lastOp, result, faults, txCalls, txTrace, selectAtStart,
          goroutines, tableLock, serialFile, ncalls, t2,
                       Databases, serverDir, backupZip, callers, atBackup>>

Tbl == [file |-> file, Records |-> Records, Cache |-> Cache, Indexes |-> Indexes]

SetTbl(T) ==
    /\ file' = T.file
    /\ Records' = T.Records
    /\ Cache' = T.Cache
    /\ Indexes' = T.Indexes

\* a call of the single caller returns
Returns(op, err) ==
    /\ lastOp' = op
    /\ result' = IF err THEN "err" ELSE "ok"
    /\ UNCHANGED <<goroutines, tableLock, serialFile, ncalls, t2,
                       Databases, serverDir, backupZip, callers, atBackup>>

\* the write of a call has outcome w; reached tells whether the call gets as
\* far as the write
Write(w, reached) ==
    /\ w # "ok" => reached /\ faults < MaxFaults
    /\ faults' = IF w # "ok" THEN faults + 1 ELSE faults

\* what Select(k) returns in table T: the error flag and the decoded record
SelectView(T, k) == [err |-> Select(T, HStr(k)).err, val |-> Select(T, HStr(k)).val]

\* a call made while the caller's Transaction is open
InTx == txLocked => txCalls < MaxTxCalls
Counted == txCalls' = IF txLocked THEN txCalls + 1 ELSE txCalls
\* a call other than a mutation ran since Start
Spoil ==
    /\ InTx
    /\ Counted
    /\ txTrace' = IF txLocked THEN "spoiled" ELSE txTrace
\* Insert, Update or Delete ran since Start
Mutate(err) ==
    /\ InTx
    /\ Counted
    /\ txTrace' = IF ~txLocked THEN txTrace
                  ELSE IF txTrace = "started" /\ ~err THEN "mutated" ELSE "spoiled"

TxUnchanged == UNCHANGED <<txLocked, OriginalRecords, selectAtStart>>

BucketsBelow(fields, n) == \A f \in fields : Len(Bucket(Indexes, f)) < n

Init ==
    /\ file = CreateTable.file
    /\ Records = CreateTable.Records
    /\ Cache = CreateTable.Cache
    /\ Indexes = CreateTable.Indexes
    /\ txLocked = FALSE
    /\ OriginalRecords = EmptyMap
    /\ lastOp = "CreateTable"
    /\ result = "ok"
    /\ faults = 0
    /\ txCalls = 0
    /\ txTrace = "none"
    /\ selectAtStart = EmptyMap
    /\ goroutines = [g \in Goroutines |-> Idle]
    /\ tableLock = [writer |-> "none", readers |-> {}]
    /\ serialFile = CreateTable.file
    /\ ncalls = 0
    /\ t2 = CreateTable
    /\ Databases = EmptyMap
    /\ serverDir = [exists |-> TRUE, dirs |-> EmptyMap]
    /\ backupZip = NoBackup
    /\ callers = [c \in Callers |-> NotCalling]
    /\ atBackup = NoSnapshot

(***************************************************************************)
(* One caller: every call runs to its return before the next begins.  The  *)
(* parameter of an action is the set its input is drawn from.              *)
(***************************************************************************)
CallInsert(records) ==
    \E record \in records, w \in WriteOutcomes :
        LET rd == readRecordsFromFile(file)
            r == Insert(Tbl, rd, record, w)
        IN /\ Write(w, ~Insert(Tbl, rd, record, "ok").err)
           /\ SetTbl(r.T)
           /\ Returns("Insert", r.err)
           /\ Mutate(r.err)
           /\ TxUnchanged

CallInsertMany(batches) ==
    \E records \in batches, w \in WriteOutcomes :
        LET rd == readRecordsFromFile(file)
            r == InsertMany(Tbl, rd, records, w)
        IN /\ Write(w, ~InsertMany(Tbl, rd, records, "ok").err)
           /\ SetTbl(r.T)
           /\ Returns("InsertMany", r.err)
           /\ Spoil
           /\ TxUnchanged

CallSelect(keys) ==
    \E key \in keys :
        LET r == Select(Tbl, key) IN
        /\ SetTbl(r.T)
        /\ Returns("Select", r.err)
        /\ Spoil
        /\ UNCHANGED faults
        /\ TxUnchanged

CallSelectAll ==
    /\ Returns("SelectAll", SelectAll(Tbl).err)
    /\ Spoil
    /\ UNCHANGED <<file, Records, Cache, Indexes, faults>>
    /\ TxUnchanged

CallSelectWithFilter(inputs) ==
    \E filters \in inputs :
        \E forder \in [DOMAIN readRecordsFromFile(file).recs -> Perms(DOMAIN filters)] :
            /\ Returns("SelectWithFilter", SelectWithFilter(Tbl, filters, forder).err)
            /\ Spoil
            /\ UNCHANGED <<file, Records, Cache, Indexes, faults>>
            /\ TxUnchanged

CallQuery(queries) ==
    \E query \in queries :
        \E order \in Perms(DOMAIN query.Filters), rorder \in Perms(DOMAIN Records) :
            LET plan == generateExecutionPlan(Tbl, query, order) IN
            \E perm \in Perms(1..Len(scanPlan(Tbl, plan, rorder))) :
                /\ IsSorted(plan, sortSlice(scanPlan(Tbl, plan, rorder), perm))
                /\ Returns("Query", FALSE)
                /\ Spoil
                /\ UNCHANGED <<file, Records, Cache, Indexes, faults>>
                /\ TxUnchanged

CallUpdate(keys, inputs) ==
    \E key \in keys, updates \in inputs, w \in WriteOutcomes :
        \E order \in Perms(DOMAIN updates) :
            LET rd == readRecordsFromFile(file)
                r == Update(Tbl, rd, key, updates, order, w)
            IN /\ BucketsBelow(DOMAIN updates, MaxBucket)
               /\ Write(w, ~Update(Tbl, rd, key, updates, order, "ok").err)
               /\ SetTbl(r.T)
               /\ Returns("Update", r.err)
               /\ Mutate(r.err)
               /\ TxUnchanged

FieldOrders(updates) ==
    {fo \in [DOMAIN updates -> UNION {Perms(DOMAIN updates[k]) : k \in DOMAIN updates}] :
        \A k \in DOMAIN updates : fo[k] \in Perms(DOMAIN updates[k])}

CallUpdateMany(batches) ==
    \E updates \in batches, w \in WriteOutcomes :
        \E korder \in Perms(DOMAIN updates), forder \in FieldOrders(updates) :
            LET rd == readRecordsFromFile(file)
                r == UpdateMany(Tbl, rd, updates, korder, forder, w)
            IN /\ BucketsBelow(UNION {DOMAIN updates[k] : k \in DOMAIN updates},
                               MaxBucket + 1 - Cardinality(DOMAIN updates))
               /\ Write(w, ~rd.err)
               /\ SetTbl(r.T)
               /\ Returns("UpdateMany", r.nerr > 0)
               /\ Spoil
               /\ TxUnchanged

CallDelete(keys) ==
    \E key \in keys, w \in WriteOutcomes :
        LET rd == readRecordsFromFile(file)
            r == Delete(Tbl, rd, key, w)
        IN /\ Write(w, ~Delete(Tbl, rd, key, "ok").err)
           /\ SetTbl(r.T)
           /\ Returns("Delete", r.err)
           /\ Mutate(r.err)
           /\ TxUnchanged

CallDeleteMany(batches) ==
    \E keys \in batches, w \in WriteOutcomes :
        LET rd == readRecordsFromFile(file)
            r == DeleteMany(Tbl, rd, keys, w)
        IN /\ Write(w, ~rd.err)
           /\ SetTbl(r.T)
           /\ Returns("DeleteMany", r.nerr > 0)
           /\ Spoil
           /\ TxUnchanged

CallResetAndLoadIndexes ==
    LET rd == readRecordsFromFile(file) IN
    \E korder \in Perms(DOMAIN rd.recs) :
        LET r == ResetAndLoadIndexes(Tbl, rd, korder) IN
        /\ SetTbl(r.T)
        /\ Returns("ResetAndLoadIndexes", r.err)
        /\ Spoil
        /\ UNCHANGED faults
        /\ TxUnchanged

\* the process ends and a new one loads the table from the directory
CallLoadTables ==
    LET rd == readRecordsFromFile(file) IN
    /\ ~rd.err
    /\ \E korder \in Perms(DOMAIN rd.recs) : SetTbl(LoadTables(file, korder))
    /\ Returns("LoadTables", FALSE)
    /\ txLocked' = FALSE
    /\ OriginalRecords' = EmptyMap
    /\ txCalls' = 0
    /\ txTrace' = "none"
    /\ selectAtStart' = EmptyMap
    /\ UNCHANGED faults

\* NewTransaction(t).Start()
CallStart ==
    LET st == Start(Tbl) IN
    /\ ~txLocked
    /\ txLocked' = ~st.err
    /\ OriginalRecords' = IF st.err THEN EmptyMap ELSE st.recs
    /\ txCalls' = 0
    /\ txTrace' = IF st.err THEN "none" ELSE "started"
    /\ selectAtStart' = IF st.err THEN EmptyMap
                        ELSE [k \in KeyStrings |-> SelectView(Tbl, k)]
    /\ Returns("Start", st.err)
    /\ UNCHANGED <<file, Records, Cache, Indexes, faults>>

\* the Transaction is dropped after Commit or Rollback
EndTx ==
    /\ txLocked' = FALSE
    /\ OriginalRecords' = EmptyMap
    /\ txCalls' = 0
    /\ txTrace' = "none"
    /\ selectAtStart' = EmptyMap

CallCommit ==
    /\ txLocked
    /\ EndTx
    /\ Returns("Commit", FALSE)
    /\ UNCHANGED <<file, Records, Cache, Indexes, faults>>

CallRollback ==
    \E w \in WriteOutcomes :
        LET r == Rollback(Tbl, OriginalRecords, w) IN
        /\ txLocked
        /\ Write(w, TRUE)
        /\ EndTx
        /\ SetTbl(r.T)
        /\ Returns("Rollback", r.err)

\* the two writes of a wrapper: w is the mutation's, wr the Rollback's
Write2(w, reached, wr, rollback) ==
    /\ w # "ok" => reached
    /\ wr # "ok" => rollback
    /\ faults + (IF w # "ok" THEN 1 ELSE 0) + (IF wr # "ok" THEN 1 ELSE 0) <= MaxFaults
    /\ faults' = faults + (IF w # "ok" THEN 1 ELSE 0) + (IF wr # "ok" THEN 1 ELSE 0)

CallInsertWithTransaction(records) ==
    \E record \in records, w \in WriteOutcomes, wr \in WriteOutcomes :
        LET rd == readRecordsFromFile(file)
            r == InsertWithTransaction(Tbl, record, w, wr)
        IN /\ Write2(w, ~Insert(Tbl, rd, record, "ok").err,
                     wr, ~rd.err /\ Insert(Tbl, rd, record, w).err)
           /\ SetTbl(r.T)
           /\ Returns("InsertWithTransaction", r.err)
           /\ Spoil
           /\ TxUnchanged

CallUpdateWithTransaction(keys, inputs) ==
    \E key \in keys, updates \in inputs, w \in WriteOutcomes, wr \in WriteOutcomes :
        \E order \in Perms(DOMAIN updates) :
            LET rd == readRecordsFromFile(file)
                r == UpdateWithTransaction(Tbl, key, updates, order, w, wr)
            IN /\ BucketsBelow(DOMAIN updates, MaxBucket)
               /\ Write2(w, ~Update(Tbl, rd, key, updates, order, "ok").err,
                         wr, ~rd.err /\ Update(Tbl, rd, key, updates, order, w).err)
               /\ SetTbl(r.T)
               /\ Returns("UpdateWithTransaction", r.err)
               /\ Spoil
               /\ TxUnchanged

CallDeleteWithTransaction(keys) ==
    \E key \in keys, w \in WriteOutcomes, wr \in WriteOutcomes :
        LET rd == readRecordsFromFile(file)
            r == DeleteWithTransaction(Tbl, key, w, wr)
        IN /\ Write2(w, ~Delete(Tbl, rd, key, "ok").err,
                     wr, ~rd.err /\ Delete(Tbl, rd, key, w).err)
           /\ SetTbl(r.T)
           /\ Returns("DeleteWithTransaction", r.err)
           /\ Spoil
           /\ TxUnchanged

Next ==
    \/ CallInsert(InsertRecords)
    \/ CallInsertMany(InsertBatches)
    \/ CallSelect(KeyInputs)
    \/ CallUpdate(KeyInputs, UpdateInputs)
    \/ CallUpdateMany(UpdateBatches)
    \/ CallDelete(KeyInputs)
    \/ CallDeleteMany(DeleteBatches)
    \/ CallResetAndLoadIndexes
    \/ CallLoadTables
    \/ CallStart
    \/ CallCommit
    \/ CallRollback

Spec == Init /\ [][Next]_vars

(***************************************************************************)
(* The transaction wrappers, called one at a time.                         *)
(***************************************************************************)
NextTx ==
    \/ CallInsertWithTransaction(InsertRecords)
    \/ CallUpdateWithTransaction(KeyInputs, UpdateInputs)
    \/ CallDeleteWithTransaction(KeyInputs)
    \/ CallSelect(KeyInputs)
    \/ CallLoadTables

SpecTx == Init /\ [][NextTx]_vars

(***************************************************************************)
(* Insert, InsertMany, Update, UpdateMany, Delete and DeleteMany with      *)
(* updates that write the primary-key field as well, every call returning  *)
(* success.                                                                *)
(***************************************************************************)
KeyUpdateInputs ==
    { [v |-> HStr("y")],
      [id |-> HStr("")],
      [id |-> HStr("a")] }

KeyUpdateBatches ==
    { [a |-> [v |-> HStr("y")]],
      ("a" :> [v |-> HStr("y")]) @@ ("num:1" :> [id |-> HStr("a")]) }

InsertOk == CallInsert(InsertRecords) /\ result' = "ok"
InsertManyOk == CallInsertMany(InsertBatches) /\ result' = "ok"
UpdateOk == CallUpdate(KeyInputs, KeyUpdateInputs) /\ result' = "ok"
UpdateManyOk == CallUpdateMany(KeyUpdateBatches) /\ result' = "ok"
DeleteOk == CallDelete(KeyInputs) /\ result' = "ok"
DeleteManyOk == CallDeleteMany(DeleteBatches) /\ result' = "ok"

NextOk ==
    \/ InsertOk
    \/ InsertManyOk
    \/ UpdateOk
    \/ UpdateManyOk
    \/ DeleteOk
    \/ DeleteManyOk

SpecOk == Init /\ [][NextOk]_vars

(***************************************************************************)
(* Insert with primary keys and field values of every kind, Select,        *)
(* SelectAll, Delete, and the restart of the process (LoadTables); no file *)
(* write fails.                                                            *)
(***************************************************************************)
ValIds == {HInt(0), HInt(7), HStr("7"), HStr("a"), HStr(""), HNil, HBool(TRUE)}

ValScalars ==
    {HInt(0), HInt(7), HFloat(0), HBool(FALSE), HStr("7"), HStr("num:7"),
     HStr("str:x"), HStr("a")}

ValRecords ==
    {[id |-> i, v |-> x] : i \in ValIds, x \in ValScalars \cup {HBad}}
        \cup {[v |-> x] : x \in ValScalars}

ValKeys == {HInt(0), HInt(7), HStr("0"), HStr("7"), HStr("a"), HStr("num:0"),
            HStr("num:7"), HStr("str:7")}

StoredKeys == DOMAIN readRecordsFromFile(file).recs

ValInsert ==
    /\ Cardinality(StoredKeys) < MaxStored
    /\ CallInsert(ValRecords)
    /\ faults' = 0

ValDelete == CallDelete(ValKeys) /\ faults' = 0

NextVal ==
    \/ ValInsert
    \/ CallSelect(ValKeys)
    \/ CallSelectAll
    \/ ValDelete
    \/ CallLoadTables

SpecVal == Init /\ [][NextVal]_vars

(***************************************************************************)
(* Insert, Update, UpdateMany and Delete of records whose field v takes    *)
(* values of several kinds, the building of the indexes, and the reads     *)
(* SelectWithFilter, Query and Select; no file write fails.                *)
(***************************************************************************)
QValues == {HStr("x"), HStr("7"), HInt(5), HFloat(0)}

QRecords == {[id |-> HStr(i), v |-> x] : i \in {"a", "b"}, x \in QValues}

QKeys == {HStr("a"), HStr("b")}

QUpdates == {[v |-> x] : x \in QValues}

QUpdateBatches == {[a |-> u] : u \in QUpdates}

QFilters ==
    {[v |-> x] : x \in QValues \cup {HStr(""), HStr("num:5"), HFloat(5)}}
        \cup {[id |-> HStr("a"), v |-> HStr("x")], EmptyMap}

QQueries ==
    {[Filters |-> f, SortBy |-> "", Limit |-> 0, Offset |-> 0] : f \in QFilters}

QInsert ==
    /\ Cardinality(StoredKeys) < MaxStored
    /\ CallInsert(QRecords)
    /\ faults' = 0

QUpdate == CallUpdate(QKeys, QUpdates) /\ faults' = 0

QUpdateMany == CallUpdateMany(QUpdateBatches) /\ faults' = 0

QDelete == CallDelete(QKeys) /\ faults' = 0

NextQuery ==
    \/ QInsert
    \/ QUpdate
    \/ QUpdateMany
    \/ QDelete
    \/ CallResetAndLoadIndexes
    \/ CallSelect(QKeys)
    \/ CallSelectWithFilter(QFilters)
    \/ CallQuery(QQueries)

SpecQuery == Init /\ [][NextQuery]_vars

(***************************************************************************)
(* Pages: Query with a limit and an offset, on records whose primary keys  *)
(* are strings or integers; no file write fails.                           *)
(***************************************************************************)
PageRecords ==
    {[id |-> i, v |-> x] : i \in {HStr("a"), HStr("b"), HInt(1), HInt(2)},
                           x \in {HStr("x"), HFloat(5)}}

PageKeys == {HStr("a"), HInt(1)}

PageLimits == 0..2
PageOffsets == 0..3

PageQueries ==
    {[Filters |-> f, SortBy |-> sb, Limit |-> l, Offset |-> o] :
        f \in {EmptyMap, [v |-> HStr("x")]}, sb \in {"", "v"},
        l \in PageLimits, o \in PageOffsets}

NextPage ==
    \/ CallInsert(PageRecords) /\ faults' = 0 /\ Cardinality(StoredKeys) < MaxRows
    \/ CallDelete(PageKeys) /\ faults' = 0
    \/ CallResetAndLoadIndexes
    \/ CallQuery({query \in PageQueries : query.Limit = 1})

SpecPage == Init /\ [][NextPage]_vars

(***************************************************************************)
(* The planner: records with two indexed fields v and w besides the        *)
(* primary key, so that the index buckets of the filter fields can differ  *)
(* in length; no file write fails.                                         *)
(***************************************************************************)
PlanRecords ==
    {[id |-> HStr(i), v |-> HStr("x"), w |-> HStr(y)] : i \in {"a", "b", "c"}, y \in {"x", "y"}}

PlanKeys == {HStr("a"), HStr("b"), HStr("c")}

PlanUpdates == {[v |-> HStr("x")], [w |-> HStr("x")]}

PlanFilters ==
    {[v |-> HStr("x"), w |-> HStr("x")], [v |-> HStr("x")], [w |-> HStr("y")],
     [id |-> HStr("a"), w |-> HStr("x")]}

PlanQueries ==
    {[Filters |-> f, SortBy |-> "", Limit |-> 0, Offset |-> 0] : f \in PlanFilters}

PlanInsert ==
    /\ Cardinality(StoredKeys) < MaxRows
    /\ CallInsert(PlanRecords)
    /\ faults' = 0

PlanUpdate == CallUpdate(PlanKeys, PlanUpdates) /\ faults' = 0

PlanDelete == CallDelete(PlanKeys) /\ faults' = 0

NextPlan ==
    \/ PlanInsert
    \/ PlanUpdate
    \/ PlanDelete
    \/ CallResetAndLoadIndexes
    \/ CallQuery(PlanQueries)

SpecPlan == Init /\ [][NextPlan]_vars

\* ---------------------------------------------------------------------------

\* the int64 strconv.ParseInt returns
HInt64(n) == [t |-> "int64", s |-> "", n |-> n, b |-> FALSE]

\* the closure extractValue of mergeRecords
extractValue(v) ==
    CASE v.k = "string" ->
           IF Len(v.s) > 4 /\ SubSeq(v.s, 1, 4) = "num:"
           THEN IF ParseIntOk(SubSeq(v.s, 5, Len(v.s)))
                THEN HInt64(ParseIntVal(SubSeq(v.s, 5, Len(v.s))))
                ELSE HStr(v.s)
           ELSE HStr(v.s)
      [] v.k = "number" -> HFloat(v.n)
      [] v.k = "bool" -> HBool(v.b)
      [] OTHER -> HNil

\* mergeRecords(rec1, rec2); a nil record is the record with no fields, which
\* adds nothing to the result either
mergeRecords(rec1, rec2) ==
    [f \in {"t1." \o k : k \in DOMAIN rec1} \cup {"t2." \o k : k \in DOMAIN rec2} |->
        IF SubSeq(f, 1, 3) = "t1."
        THEN extractValue(rec1[SubSeq(f, 4, Len(f))])
        ELSE extractValue(rec2[SubSeq(f, 4, Len(f))])]

JoinTypes == {"InnerJoin", "LeftJoin", "RightJoin", "FullOuterJoin"}

\* the first loop of JoinTables, over t1.Indexes[key1]
RECURSIVE joinLeftLoop(_, _, _, _, _)
joinLeftLoop(index1, index2, key1, key2, joinType) ==
    IF index1 = <<>> THEN <<>>
    ELSE LET rec1 == Head(index1)
             hits == SelectSeq(index2, LAMBDA rec2 : Equal(rec1[key1], rec2[key2]))
             matched == hits # <<>>
             rows == [i \in 1..Len(hits) |-> mergeRecords(rec1, hits[i])]
         IN (IF ~matched /\ joinType \in {"LeftJoin", "FullOuterJoin"}
             THEN <<mergeRecords(rec1, EmptyMap)>>
             ELSE rows)
            \o joinLeftLoop(Tail(index1), index2, key1, key2, joinType)

\* the second loop of JoinTables, over t2.Indexes[key2]
RECURSIVE joinRightLoop(_, _, _, _)
joinRightLoop(index1, index2, key1, key2) ==
    IF index2 = <<>> THEN <<>>
    ELSE LET rec2 == Head(index2)
             matched == \E i \in 1..Len(index1) : Equal(index1[i][key1], rec2[key2])
         IN (IF ~matched THEN <<mergeRecords(EmptyMap, rec2)>> ELSE <<>>)
            \o joinRightLoop(index1, Tail(index2), key1, key2)

\* JoinTables(t1, t2, key1, key2, joinType); korder1 and korder2 are the orders
\* in which ResetAndLoadIndexes ranges over the records of the two files
JoinTables(T1, T2, key1, key2, joinType, korder1, korder2) ==
    LET r1 == ResetAndLoadIndexes(T1, readRecordsFromFile(T1.file), korder1)
        r2 == ResetAndLoadIndexes(T2, readRecordsFromFile(T2.file), korder2)
        index1 == Bucket(r1.T.Indexes, key1)
        index2 == Bucket(r2.T.Indexes, key2)
    IN IF r1.err THEN [err |-> TRUE, T1 |-> r1.T, T2 |-> T2, results |-> <<>>]
       ELSE IF r2.err THEN [err |-> TRUE, T1 |-> r1.T, T2 |-> r2.T, results |-> <<>>]
       ELSE [err |-> FALSE, T1 |-> r1.T, T2 |-> r2.T,
             results |->
                 joinLeftLoop(index1, index2, key1, key2, joinType)
                 \o (IF joinType \in {"RightJoin", "FullOuterJoin"}
                     THEN joinRightLoop(index1, index2, key1, key2)
                     ELSE <<>>)]

\* Insert on the second table
CallInsertT2(records) ==
    \E record \in records :
        LET r == Insert(t2, readRecordsFromFile(t2.file), record, "ok") IN
        /\ t2' = r.T
        /\ lastOp' = "Insert"
        /\ result' = IF r.err THEN "err" ELSE "ok"
        /\ UNCHANGED <<file, Records, Cache, Indexes, faults, txCalls, txTrace,
                       goroutines, tableLock, serialFile, ncalls,
                       Databases, serverDir, backupZip, callers, atBackup>>
        /\ TxUnchanged

CallJoinTables(keys, joinTypes) ==
    \E key1 \in keys, key2 \in keys, joinType \in joinTypes :
    \E korder1 \in Perms(DOMAIN readRecordsFromFile(file).recs),
       korder2 \in Perms(DOMAIN readRecordsFromFile(t2.file).recs) :
        LET j == JoinTables(Tbl, t2, key1, key2, joinType, korder1, korder2) IN
        /\ SetTbl(j.T1)
        /\ t2' = j.T2
        /\ lastOp' = "JoinTables"
        /\ result' = IF j.err THEN "err" ELSE "ok"
        /\ UNCHANGED <<faults, txCalls, txTrace, goroutines, tableLock, serialFile, ncalls,
                       Databases, serverDir, backupZip, callers, atBackup>>
        /\ TxUnchanged

\* the tables a join is checked on: two records at most in each, joined on v
JoinRecords ==
    { [id |-> HStr(k), v |-> x] :
        k \in {"a", "b"}, x \in {HStr("x"), HStr("y"), HInt(5), HFloat(5)} }

JoinKeys == {"v"}

JoinInsert == CallInsert(JoinRecords) /\ faults' = 0

NextJoin ==
    \/ JoinInsert
    \/ CallInsertT2(JoinRecords)
    \/ CallJoinTables(JoinKeys, JoinTypes)

SpecJoin == Init /\ [][NextJoin]_vars


(***************************************************************************)
(* Several goroutines.  A call is a sequence of steps: it begins, takes    *)
(* the table's lock (Lock for Insert, Update and Delete, RLock for         *)
(* Select), reads the file and works on the maps, and writes the file in   *)
(* two steps, as os.OpenFile with O_TRUNC empties the file before the      *)
(* blob is written.  No file operation fails here.  A transaction wrapper  *)
(* makes its own Transaction, so its mutex excludes nobody; its Start      *)
(* reads the file with no table lock held.                                 *)
(***************************************************************************)
\* a Lock that waits for nobody
CanLockAlways(g) == TRUE

\* sync.RWMutex: Lock waits for the writer and the readers to leave
CanLock(g) == tableLock.writer = "none" /\ tableLock.readers = {}

\* sync.RWMutex: RLock waits for the writer to leave
CanRLock(g) == tableLock.writer = "none"

\* an Unlock that leaves the lock held
StillLocked == tableLock

\* sync.RWMutex: Unlock
Unlocked == [tableLock EXCEPT !.writer = "none"]

\* goroutines whose call is under way
Running == {g \in Goroutines : goroutines[g].pc # "idle"}

\* the body of the mutation c on table T, the field order of an Update being order
Mutation(T, c, order) ==
    LET rd == readRecordsFromFile(T.file) IN
    CASE c.op = "Insert" -> Insert(T, rd, c.rec, "ok")
      [] c.op = "Update" -> Update(T, rd, c.key, c.rec, order, "ok")
      [] OTHER -> Delete(T, rd, c.key, "ok")

\* the file after the mutation c is applied alone to the file f
ApplySerial(f, c) ==
    LET T0 == [file |-> f, Records |-> EmptyMap, Cache |-> EmptyMap, Indexes |-> EmptyMap]
        order == CHOOSE o \in Perms(DOMAIN c.rec) : TRUE
    IN Mutation(T0, c, order).T.file

ConcUnchanged ==
    UNCHANGED <<txLocked, OriginalRecords, faults, txCalls, txTrace, selectAtStart>>

\* the call c of goroutine g returns
GoReturns(c, tx, err) ==
    /\ lastOp' = IF tx THEN c.op \o "WithTransaction" ELSE c.op
    /\ result' = IF err THEN "err" ELSE "ok"

\* sync.Mutex of the Transaction the wrapper made: Unlock, counted
TxUnlock(me) == [me EXCEPT !.mutex = "unlocked", !.unlocks = @ + 1]

\* g begins the call c: the calls under way are concurrent with it; a wrapper
\* has returned from Start with its Transaction locked
Began(g, c, tx, pc, snapshot) ==
    [h \in Goroutines |->
        IF h = g
        THEN [Idle EXCEPT !.pc = pc, !.call = c, !.tx = tx, !.snapshot = snapshot,
                          !.concurrent = (Running \ {g}) # {},
                          !.mutex = IF tx THEN "locked" ELSE "unlocked"]
        ELSE IF h \in Running THEN [goroutines[h] EXCEPT !.concurrent = TRUE]
        ELSE goroutines[h]]

\* a goroutine calls Insert, Update, Delete or Select
GoCall(calls) ==
    \E g \in Goroutines, c \in calls :
        /\ goroutines[g].pc = "idle"
        /\ ncalls < MaxCalls
        /\ ncalls' = ncalls + 1
        /\ UNCHANGED <<t2, Databases, serverDir, backupZip, callers, atBackup>>
        /\ goroutines' = Began(g, c, FALSE, "waiting", EmptyMap)
        /\ UNCHANGED <<file, Records, Cache, Indexes, lastOp, result, tableLock, serialFile>>
        /\ ConcUnchanged

\* a goroutine calls a transaction wrapper: NewTransaction and Start, which
\* locks the Transaction's own mutex and reads the file
GoStart(calls) ==
    \E g \in Goroutines, c \in calls :
        LET st == Start(Tbl) IN
        /\ goroutines[g].pc = "idle"
        /\ ncalls < MaxCalls
        /\ ncalls' = ncalls + 1
        /\ UNCHANGED <<t2, Databases, serverDir, backupZip, callers, atBackup>>
        /\ IF st.err
           THEN /\ goroutines' = [goroutines EXCEPT ![g] =
                       TxUnlock([Idle EXCEPT !.call = c, !.tx = TRUE, !.res = "err"])]
                /\ GoReturns(c, TRUE, TRUE)
           ELSE /\ goroutines' = Began(g, c, TRUE, "started", st.recs)
                /\ UNCHANGED <<lastOp, result>>
        /\ UNCHANGED <<file, Records, Cache, Indexes, tableLock, serialFile>>
        /\ ConcUnchanged

\* t.Lock() and the call's body up to the opening of the file for writing
GoLock ==
    \E g \in Goroutines :
        LET me == goroutines[g]
            c == me.call
        IN /\ me.pc \in {"waiting", "started"}
           /\ c.op # "Select"
           /\ CanLock(g)
           /\ \E order \in Perms(DOMAIN c.rec) :
                  LET r == Mutation(Tbl, c, order) IN
                  IF r.err
                  THEN \* the deferred Unlock, and the wrapper goes on to Rollback
                       /\ SetTbl(r.T)
                       /\ tableLock' = tableLock
                       /\ goroutines' = [goroutines EXCEPT ![g] =
                              IF me.tx THEN [me EXCEPT !.pc = "failed"]
                              ELSE [me EXCEPT !.pc = "idle", !.res = "err"]]
                       /\ IF me.tx THEN UNCHANGED <<lastOp, result>>
                          ELSE GoReturns(c, FALSE, TRUE)
                  ELSE /\ SetTbl([r.T EXCEPT !.file = EmptyFile, !.Records = Records])
                       /\ tableLock' = [tableLock EXCEPT !.writer = g]
                       /\ goroutines' = [goroutines EXCEPT ![g] =
                              [me EXCEPT !.pc = "writing",
                                         !.pending = [file |-> r.T.file,
                                                      Records |-> r.T.Records]]]
                       /\ UNCHANGED <<lastOp, result>>
           /\ serialFile' = ApplySerial(serialFile, c)
           /\ UNCHANGED <<ncalls, t2,
                       Databases, serverDir, backupZip, callers, atBackup>>
           /\ ConcUnchanged

\* the wrapper of h has returned from Start and not yet entered Rollback
BetweenStartAndRollback(h) ==
    goroutines[h].tx /\ goroutines[h].pc \in {"started", "failed"}

\* the blob is written, t.Records assigned, the lock released; a wrapper
\* Commits.  The wrappers under way note the file this call leaves (seen).
GoWrite ==
    \E g \in Goroutines :
        LET me == goroutines[g] IN
        /\ me.pc = "writing"
        /\ file' = me.pending.file
        /\ Records' = me.pending.Records
        /\ tableLock' = Unlocked
        /\ goroutines' = [h \in Goroutines |->
               IF h = g
               THEN LET ret == [me EXCEPT !.pc = "idle", !.res = "ok",
                                          !.pending = NoPending,
                                          !.snapshot = EmptyMap, !.seen = NoneSeen]
                    IN IF me.tx THEN TxUnlock(ret) ELSE ret
               ELSE IF BetweenStartAndRollback(h)
               THEN [goroutines[h] EXCEPT !.seen =
                        [set |-> TRUE, tx |-> me.tx, file |-> me.pending.file]]
               ELSE goroutines[h]]
        /\ GoReturns(me.call, me.tx, FALSE)
        /\ UNCHANGED <<Cache, Indexes, serialFile, ncalls, t2,
                       Databases, serverDir, backupZip, callers, atBackup>>
        /\ ConcUnchanged

\* the write of the blob fails with part of it written: the mutation returns
\* the error and its deferred Unlock runs; a wrapper goes on to Rollback
GoWriteFails ==
    \E g \in Goroutines :
        LET me == goroutines[g] IN
        /\ me.pc = "writing"
        /\ faults < MaxFaults
        /\ faults' = faults + 1
        /\ file' = PartialFile
        /\ tableLock' = Unlocked
        /\ goroutines' = [goroutines EXCEPT ![g] =
               IF me.tx THEN [me EXCEPT !.pc = "failed", !.pending = NoPending]
               ELSE [me EXCEPT !.pc = "idle", !.res = "err", !.pending = NoPending]]
        /\ IF me.tx THEN UNCHANGED <<lastOp, result>>
           ELSE GoReturns(me.call, FALSE, TRUE)
        /\ UNCHANGED <<Records, Cache, Indexes, serialFile, ncalls, t2,
                       Databases, serverDir, backupZip, callers, atBackup>>
        /\ UNCHANGED <<txLocked, OriginalRecords, txCalls, txTrace, selectAtStart>>

\* Rollback: t.Table.Lock() and the opening of the file for writing
GoRollbackLock ==
    \E g \in Goroutines :
        LET me == goroutines[g] IN
        /\ me.pc = "failed"
        /\ CanLock(g)
        /\ tableLock' = [tableLock EXCEPT !.writer = g]
        /\ file' = EmptyFile
        /\ goroutines' = [goroutines EXCEPT ![g] = [me EXCEPT !.pc = "rollback"]]
        /\ UNCHANGED <<Records, Cache, Indexes, lastOp, result, serialFile, ncalls, t2,
                       Databases, serverDir, backupZip, callers, atBackup>>
        /\ ConcUnchanged

\* Rollback writes OriginalRecords and unlocks; the wrapper returns the
\* mutation's error
GoRollbackWrite ==
    \E g \in Goroutines :
        LET me == goroutines[g]
            r == Rollback(Tbl, me.snapshot, "ok")
        IN /\ me.pc = "rollback"
           /\ SetTbl(r.T)
           /\ tableLock' = Unlocked
           /\ goroutines' = [goroutines EXCEPT ![g] =
                  TxUnlock([me EXCEPT !.pc = "idle", !.res = "err",
                                      !.snapshot = EmptyMap, !.seen = NoneSeen])]
           /\ GoReturns(me.call, TRUE, TRUE)
           /\ UNCHANGED <<serialFile, ncalls, t2,
                       Databases, serverDir, backupZip, callers, atBackup>>
           /\ ConcUnchanged

\* Select: t.RLock()
GoRLock ==
    \E g \in Goroutines :
        LET me == goroutines[g] IN
        /\ me.pc = "waiting"
        /\ me.call.op = "Select"
        /\ CanRLock(g)
        /\ tableLock' = [tableLock EXCEPT !.readers = @ \cup {g}]
        /\ goroutines' = [goroutines EXCEPT ![g] = [me EXCEPT !.pc = "reading"]]
        /\ UNCHANGED <<file, Records, Cache, Indexes, lastOp, result, serialFile, ncalls, t2,
                       Databases, serverDir, backupZip, callers, atBackup>>
        /\ ConcUnchanged

\* what the write of t.Cache in Select can do while another goroutine is in
\* Select too (a data race on the map): take effect, be lost, or end the
\* program with the runtime's fatal error
RaceOutcomes == {"written", "lost", "fatal"}

\* Select's body and t.RUnlock()
GoSelect ==
    \E g \in Goroutines, race \in RaceOutcomes :
        LET me == goroutines[g]
            r == Select(Tbl, me.call.key)
            fills == r.T.Cache # Cache
            raced == fills /\ tableLock.readers # {g}
        IN /\ me.pc = "reading"
           /\ race # "written" => raced
           /\ IF race = "fatal"
              THEN /\ goroutines' = [h \in Goroutines |->
                          [goroutines[h] EXCEPT !.pc = "dead"]]
                   /\ UNCHANGED <<Cache, tableLock, lastOp, result>>
              ELSE /\ Cache' = IF race = "lost" THEN Cache ELSE r.T.Cache
                   /\ tableLock' = [tableLock EXCEPT !.readers = @ \ {g}]
                   /\ goroutines' = [goroutines EXCEPT ![g] =
                          [me EXCEPT !.pc = "idle", !.val = r.val,
                                     !.res = IF r.err THEN "err" ELSE "ok"]]
                   /\ GoReturns(me.call, FALSE, r.err)
           /\ UNCHANGED <<file, Records, Indexes, serialFile, ncalls, t2,
                       Databases, serverDir, backupZip, callers, atBackup>>
           /\ ConcUnchanged

\* Insert, Update, Delete and Select from several goroutines
NextConc ==
    \/ GoCall(MutationCalls \cup SelectCalls)
    \/ GoLock
    \/ GoWrite
    \/ GoRLock
    \/ GoSelect

SpecConc == Init /\ [][NextConc]_vars

FairCalls ==
    { [op |-> "Insert", key |-> HNil, rec |-> [id |-> HStr("a"), v |-> HStr("x")]] }

FairUpdates ==
    { [op |-> "Update", key |-> HStr("a"), rec |-> [v |-> HStr("y")]] }

TxCalls ==
    { [op |-> "Insert", key |-> HNil, rec |-> [id |-> HStr("a"), v |-> HStr("x")]],
      [op |-> "Insert", key |-> HNil, rec |-> [v |-> HStr("x")]],
      [op |-> "Delete", key |-> HStr("a"), rec |-> <<>>] }

\* the same with the transaction wrappers
NextConcTx ==
    \/ GoCall(MutationCalls)
    \/ GoStart(TxCalls)
    \/ GoLock
    \/ GoWrite
    \/ GoRollbackLock
    \/ GoRollbackWrite

SpecConcTx == Init /\ [][NextConcTx]_vars

\* the calls the goroutines begin in a run of the fair specification
MaxFairCalls == 3

\* the wrappers and Insert with a file write that can fail, which makes the
\* next Start fail
NextConcTxFaulty ==
    \/ GoStart(TxCalls \cup FairUpdates) /\ ncalls < MaxFairCalls
    \/ GoCall(FairCalls) /\ ncalls < MaxFairCalls
    \/ GoLock
    \/ GoWrite
    \/ GoWriteFails
    \/ GoRollbackLock
    \/ GoRollbackWrite

\* the next step of the call of g: the goroutine is somewhere else afterwards
StepOf(g) ==
    /\ GoLock \/ GoWrite \/ GoWriteFails \/ GoRollbackLock \/ GoRollbackWrite
    /\ goroutines'[g].pc # goroutines[g].pc

\* The Go scheduler runs every goroutine that can run, and a goroutine
\* blocked in Lock gets the lock once it stays free.  Nobody has to call.
SpecConcTxFair ==
    /\ Init /\ [][NextConcTxFaulty]_vars
    /\ \A g \in Goroutines : WF_vars(StepOf(g))

(***************************************************************************)
(* Query and LoadIndexes from several goroutines.  Neither takes a lock:   *)
(* Query plans (selectBestIndex reads Indexes and Records) and then        *)
(* executes (executePlan reads them again); LoadIndexes reads the file and *)
(* appends to Indexes.                                                     *)
(***************************************************************************)
ReadMutationCalls ==
    { [op |-> "Insert", key |-> HNil, rec |-> [id |-> HStr("a"), v |-> HStr("x")]],
      [op |-> "Insert", key |-> HNil, rec |-> [id |-> HStr("b"), v |-> HStr("x")]],
      [op |-> "Update", key |-> HStr("a"), rec |-> [v |-> HStr("x")]],
      [op |-> "Delete", key |-> HStr("a"), rec |-> <<>>] }

QueryCalls == { [op |-> "Query", key |-> HNil, rec |-> [v |-> HStr("x")]] }

LoadIndexesCalls == { [op |-> "LoadIndexes", key |-> HNil, rec |-> <<>>] }

\* a goroutine calls Query or LoadIndexes: it waits for no lock
GoCallUnlocked(calls) ==
    \E g \in Goroutines, c \in calls :
        /\ goroutines[g].pc = "idle"
        /\ ncalls < MaxCalls
        /\ ncalls' = ncalls + 1
        /\ UNCHANGED <<t2, Databases, serverDir, backupZip, callers, atBackup>>
        /\ goroutines' = Began(g, c, FALSE,
                               IF c.op = "Query" THEN "planning" ELSE "loading", EmptyMap)
        /\ UNCHANGED <<file, Records, Cache, Indexes, lastOp, result, tableLock, serialFile>>
        /\ ConcUnchanged

\* the query of the call c
QueryOf(c) == [Filters |-> c.rec, SortBy |-> "", Limit |-> 0, Offset |-> 0]

\* generateExecutionPlan
GoPlan ==
    \E g \in Goroutines :
        LET me == goroutines[g] IN
        /\ me.pc = "planning"
        /\ \E order \in Perms(DOMAIN me.call.rec) :
               goroutines' = [goroutines EXCEPT ![g] =
                   [me EXCEPT !.pc = "planned",
                              !.plan = selectBestIndex(Tbl, QueryOf(me.call), order)]]
        /\ UNCHANGED <<file, Records, Cache, Indexes, lastOp, result, tableLock,
                       serialFile, ncalls, t2,
                       Databases, serverDir, backupZip, callers, atBackup>>
        /\ ConcUnchanged

\* what a read of t.Indexes or t.Records can do while a mutation is in its
\* critical section (a data race on the maps): go through, or end the
\* program with the runtime's fatal error
ReadRaceOutcomes == {"read", "fatal"}

\* executePlan; t.Indexes[plan.IndexToUse] is the nil slice when the index
\* has gone since the planning
GoExecute ==
    \E g \in Goroutines, race \in ReadRaceOutcomes :
        LET me == goroutines[g]
            T == [Tbl EXCEPT !.Indexes =
                     IF me.plan = "" \/ me.plan \in DOMAIN Indexes THEN Indexes
                     ELSE Put(Indexes, me.plan, <<>>)]
            plan == [generateExecutionPlan(T, QueryOf(me.call), <<>>)
                        EXCEPT !.IndexToUse = me.plan]
        IN /\ me.pc = "planned"
           /\ race = "fatal" => tableLock.writer # "none"
           /\ IF race = "fatal"
              THEN /\ goroutines' = [h \in Goroutines |->
                          [goroutines[h] EXCEPT !.pc = "dead"]]
                   /\ UNCHANGED <<lastOp, result>>
              ELSE \E rorder \in Perms(DOMAIN Records) :
                     \E perm \in Perms(1..Len(scanPlan(T, plan, rorder))) :
                       /\ IsSorted(plan, sortSlice(scanPlan(T, plan, rorder), perm))
                       /\ goroutines' = [goroutines EXCEPT ![g] =
                              [me EXCEPT !.pc = "idle", !.res = "ok", !.plan = "",
                                         !.rows = executePlan(T, plan, rorder, perm)]]
                       /\ GoReturns(me.call, FALSE, FALSE)
           /\ UNCHANGED <<file, Records, Cache, Indexes, tableLock, serialFile, ncalls, t2,
                       Databases, serverDir, backupZip, callers, atBackup>>
           /\ ConcUnchanged

\* LoadIndexes
GoLoadIndexes ==
    \E g \in Goroutines :
        LET me == goroutines[g]
            rd == readRecordsFromFile(file)
        IN /\ me.pc = "loading"
           /\ \A f \in DOMAIN Indexes : Len(Indexes[f]) < MaxBucket
           /\ \E korder \in Perms(DOMAIN rd.recs) :
                  LET r == LoadIndexes(Tbl, rd, korder) IN
                  /\ SetTbl(r.T)
                  /\ goroutines' = [goroutines EXCEPT ![g] =
                         [me EXCEPT !.pc = "idle", !.res = IF r.err THEN "err" ELSE "ok"]]
                  /\ GoReturns(me.call, FALSE, r.err)
           /\ UNCHANGED <<tableLock, serialFile, ncalls, t2,
                       Databases, serverDir, backupZip, callers, atBackup>>
           /\ ConcUnchanged

\* the process restarts while no call is under way: LoadTables builds the
\* table anew from the file, with an empty Cache
GoRestart ==
    LET rd == readRecordsFromFile(file) IN
    /\ Running = {}
    /\ ~rd.err
    /\ Cache # EmptyMap
    /\ \E korder \in Perms(DOMAIN rd.recs) : SetTbl(LoadTables(file, korder))
    /\ lastOp' = "LoadTables"
    /\ result' = "ok"
    /\ goroutines' = [g \in Goroutines |-> Idle]
    /\ UNCHANGED <<tableLock, serialFile, ncalls, t2,
                       Databases, serverDir, backupZip, callers, atBackup>>
    /\ ConcUnchanged

NextConcRead ==
    \/ GoCall(ReadMutationCalls \cup SelectCalls)
    \/ GoCallUnlocked(QueryCalls \cup LoadIndexesCalls)
    \/ GoLock
    \/ GoWrite
    \/ GoRLock
    \/ GoSelect
    \/ GoPlan
    \/ GoExecute
    \/ GoLoadIndexes
    \/ GoRestart

SpecConcRead == Init /\ [][NextConcRead]_vars

(***************************************************************************)
(* The server: databases and tables are created, records inserted, the     *)
(* databases backed up, the server directory deleted, the backup restored  *)
(* and the server started again.                                           *)
(***************************************************************************)
DbNames == {"d1", "d2"}
TableNames == {"t", "u", "t.u", ""}
PrimaryKeys == {"id", "the id"}
\* the tables of the server: two in one database and one in the other, and one
\* with a name that is not valid
ServerTables == {<<"d1", "t">>, <<"d1", "u">>, <<"d2", "t">>, <<"d2", "t.u">>}

ServerRecords == { [id |-> HStr("a"), v |-> HInt(5)] }

TableUnchanged ==
    UNCHANGED <<file, Records, Cache, Indexes, txLocked, OriginalRecords, faults,
                txCalls, txTrace, selectAtStart, goroutines, tableLock, serialFile, t2>>

\* the calls that use the databases are made with the server directory in
\* place: it is deleted only between a backup and its restoration
InPlace == serverDir.exists

\* one more call of the server has begun
Called ==
    /\ ncalls < MaxServerCalls
    /\ ncalls' = ncalls + 1

\* the names of the databases and of their tables
Catalog(S) == [d \in DOMAIN S |-> DOMAIN S[d].Tables]

\* what SelectAll returns on each table of the catalog
SelectAllOf(S, disk) ==
    [d \in DOMAIN S |->
        [t \in DOMAIN S[d].Tables |-> SelectAll(TableAt(S, disk, d, t))]]

\* history: a call other than the deletion of the directory and the restart
\* ends the observation of the backup
Forget == atBackup' = NoSnapshot

CallCreateDatabase(names) ==
    \E name \in names :
        LET r == CreateDatabase(Databases, name) IN
        /\ Databases' = r.S
        /\ lastOp' = "CreateDatabase"
        /\ result' = IF r.err THEN "err" ELSE "ok"
        /\ Forget
        /\ UNCHANGED <<serverDir, backupZip, callers>>
        /\ TableUnchanged
        /\ Called
        /\ InPlace

CallCreateTable(tables, primaryKeys) ==
    \E table \in tables, primaryKey \in primaryKeys :
        LET dbName == table[1]
            r == DatabaseCreateTable(Databases[dbName], dbName, serverDir,
                                     table[2], primaryKey)
        IN /\ dbName \in DOMAIN Databases
           /\ Databases' = [Databases EXCEPT ![dbName] = r.db]
           /\ serverDir' = r.disk
           /\ lastOp' = "CreateTable"
           /\ result' = IF r.err THEN "err" ELSE "ok"
           /\ Forget
           /\ UNCHANGED <<backupZip, callers>>
           /\ TableUnchanged
           /\ Called
           /\ InPlace

\* Database.CreateTable whose file operations have the outcome w
CallCreateTableW(tables, primaryKeys, outcomes) ==
    \E table \in tables, primaryKey \in primaryKeys, w \in outcomes :
        LET dbName == table[1]
            r == IF ValidFilename(table[2]) /\ ValidFilename(primaryKey)
                 THEN createTableSteps(Databases[dbName], dbName, serverDir,
                                       table[2], primaryKey, w)
                 ELSE [err |-> TRUE, db |-> Databases[dbName], disk |-> serverDir]
        IN /\ dbName \in DOMAIN Databases
           /\ Databases' = [Databases EXCEPT ![dbName] = r.db]
           /\ serverDir' = r.disk
           /\ lastOp' = "CreateTable"
           /\ result' = IF r.err THEN "err" ELSE "ok"
           /\ Forget
           /\ UNCHANGED <<backupZip, callers>>
           /\ TableUnchanged
           /\ Called
           /\ InPlace

\* Insert on a table of the catalog; the write fails when the directory of
\* the file is not there
CallInsertInto(records) ==
    \E dbName \in DOMAIN Databases, record \in records :
    \E tableName \in DOMAIN Databases[dbName].Tables :
        LET T == TableAt(Databases, serverDir, dbName, tableName)
            there == serverDir.exists /\ dbName \in DOMAIN serverDir.dirs
            r == Insert(T, readRecordsFromFile(T.file), record,
                        IF there THEN "ok" ELSE "noopen")
        IN /\ Databases' = [Databases EXCEPT ![dbName].Tables[tableName] =
                               TableObject(r.T, @.PrimaryKey)]
           /\ serverDir' = IF there /\ r.T.file # T.file
                           THEN WriteFile(serverDir, dbName, tableName \o ".dat", r.T.file)
                           ELSE serverDir
           /\ lastOp' = "Insert"
           /\ result' = IF r.err THEN "err" ELSE "ok"
           /\ Forget
           /\ UNCHANGED <<backupZip, callers>>
           /\ TableUnchanged
           /\ Called
           /\ InPlace

CallBackupDatabases ==
    \E order \in Perms(DOMAIN Databases) :
        LET r == BackupDatabases(Databases, serverDir, order) IN
        /\ backupZip' = r.zip
        /\ lastOp' = "BackupDatabases"
        /\ result' = IF r.err THEN "err" ELSE "ok"
        /\ atBackup' = IF r.err THEN NoSnapshot
                       ELSE [trace |-> "taken", catalog |-> Catalog(Databases),
                             selectAll |-> SelectAllOf(Databases, serverDir)]
        /\ UNCHANGED <<Databases, serverDir, callers>>
        /\ TableUnchanged
        /\ Called
        /\ InPlace

\* the server directory is deleted
RemoveServerDir ==
    /\ serverDir.exists
    /\ atBackup.trace = "taken"
    /\ serverDir' = NoServerDir
    /\ atBackup' = [atBackup EXCEPT !.trace = "deleted"]
    /\ UNCHANGED <<Databases, backupZip, callers, lastOp, result, ncalls>>
    /\ TableUnchanged

CallRestoreDatabases ==
    LET r == RestoreDatabases(Databases, serverDir, backupZip) IN
    /\ Databases' = r.S
    /\ serverDir' = r.disk
    /\ lastOp' = "RestoreDatabases"
    /\ result' = IF r.err THEN "err" ELSE "ok"
    /\ atBackup' = IF atBackup.trace = "deleted"
                   THEN [atBackup EXCEPT !.trace = "restored"] ELSE NoSnapshot
    /\ UNCHANGED <<backupZip, callers>>
    /\ TableUnchanged
    /\ Called

\* the program starts again: NewServer and Initialize
CallInitialize ==
    LET r == Initialize(NewServer, serverDir) IN
    /\ Databases' = r.S
    /\ serverDir' = r.disk
    /\ lastOp' = "Initialize"
    /\ result' = IF r.err THEN "err" ELSE "ok"
    /\ UNCHANGED <<backupZip, callers, atBackup>>
    /\ TableUnchanged
    /\ Called

NextServer ==
    \/ CallCreateDatabase(DbNames)
    \/ CallCreateTable(ServerTables, PrimaryKeys)
    \/ CallInsertInto(ServerRecords)
    \/ CallBackupDatabases
    \/ RemoveServerDir
    \/ CallRestoreDatabases
    \/ CallInitialize

SpecServer == Init /\ [][NextServer]_vars

\* databases and tables are created, records inserted, and the backup made
NextBackup ==
    \/ CallCreateDatabase(DbNames)
    \/ CallCreateTable(ServerTables, PrimaryKeys)
    \/ CallInsertInto(ServerRecords)
    \/ CallBackupDatabases

SpecBackup == Init /\ [][NextBackup]_vars

\* databases and tables are created with file operations that can fail, and
\* the program starts again
NextCreateFaulty ==
    \/ CallCreateDatabase(DbNames)
    \/ CallCreateTableW(ServerTables, PrimaryKeys, CreateOutcomes)
    \/ CallInitialize

SpecCreateFaulty == Init /\ [][NextCreateFaulty]_vars

(***************************************************************************)
(* Database.CreateTable called by several callers at once.  A call checks  *)
(* the two names, takes db.Lock and runs the rest with the lock held.      *)
(***************************************************************************)
InFlight(c) == callers[c].pc \in {"checking", "locking", "locked"}

CallerUnchanged ==
    /\ UNCHANGED <<backupZip, atBackup, ncalls>>
    /\ TableUnchanged

CreateBegin(c) ==
    \E dbName \in DbNames \cap DOMAIN Databases,
       tableName \in TableNames, primaryKey \in PrimaryKeys :
        /\ callers[c].pc = "idle"
        /\ callers' = [callers EXCEPT ![c] =
               [pc |-> "checking", db |-> dbName, tableName |-> tableName,
                primaryKey |-> primaryKey, res |-> "",
                absent |-> tableName \notin DOMAIN Databases[dbName].Tables,
                rivals |-> { d \in Callers \ {c} :
                               /\ InFlight(d)
                               /\ callers[d].db = dbName
                               /\ callers[d].tableName = tableName }]]
        /\ UNCHANGED <<Databases, serverDir, lastOp, result>>
        /\ CallerUnchanged

CreateCheck(c) ==
    LET valid == ValidFilename(callers[c].tableName) /\ ValidFilename(callers[c].primaryKey) IN
    /\ callers[c].pc = "checking"
    /\ callers' = [callers EXCEPT ![c].pc = IF valid THEN "locking" ELSE "done",
                                  ![c].res = IF valid THEN "" ELSE "err"]
    /\ IF valid THEN UNCHANGED <<lastOp, result>>
       ELSE lastOp' = "CreateTable" /\ result' = "err"
    /\ UNCHANGED <<Databases, serverDir>>
    /\ CallerUnchanged

CreateLock(c) ==
    /\ callers[c].pc = "locking"
    /\ Databases[callers[c].db].lock = "none"
    /\ Databases' = [Databases EXCEPT ![callers[c].db].lock = c]
    /\ callers' = [callers EXCEPT ![c].pc = "locked"]
    /\ UNCHANGED <<serverDir, lastOp, result>>
    /\ CallerUnchanged

CreateLocked(c) ==
    LET me == callers[c]
        r == createTableLocked(Databases[me.db], me.db, serverDir, me.tableName,
                               me.primaryKey)
    IN /\ me.pc = "locked"
       /\ Databases' = [Databases EXCEPT ![me.db] = [r.db EXCEPT !.lock = "none"]]
       /\ serverDir' = r.disk
       /\ callers' = [callers EXCEPT ![c].pc = "done",
                                     ![c].res = IF r.err THEN "err" ELSE "ok"]
       /\ lastOp' = "CreateTable"
       /\ result' = IF r.err THEN "err" ELSE "ok"
       /\ CallerUnchanged

NextCreate ==
    \/ CallCreateDatabase(DbNames)
    \/ \E c \in Callers : CreateBegin(c)
    \/ \E c \in Callers : CreateCheck(c)
    \/ \E c \in Callers : CreateLock(c)
    \/ \E c \in Callers : CreateLocked(c)

SpecCreate == Init /\ [][NextCreate]_vars

(***************************************************************************)
(* JoinTables while Insert and Delete run on the two tables.  The join     *)
(* takes each table's lock for its ResetAndLoadIndexes only and scans the  *)
(* buckets with no lock held; range reads the slice t1.Indexes[key1] once, *)
(* before the first iteration.  Insert and Delete hold their table's lock  *)
(* from beginning to end, so each is one step.  The moments of a join are  *)
(* history: what the two files held at some time during the call, noted    *)
(* at each step of the join and after each Insert and Delete.  No Insert   *)
(* or Delete runs after the last join of the run.                          *)
(***************************************************************************)
ConcJoinRecords == { [id |-> HStr(k), v |-> HStr(x)] : k \in {"a", "b"}, x \in {"x", "y"} }

ConcJoinRecords2 == { [id |-> HStr("a"), v |-> HStr(x)] : x \in {"x", "y"} }

ConcJoinKeys == {HStr("a"), HStr("b")}

ConcJoinTypes == {"InnerJoin", "FullOuterJoin"}

\* the joins begun in one run
MaxJoins == 1

\* what the two files hold
Moment == [s1 |-> readRecordsFromFile(file).recs, s2 |-> readRecordsFromFile(t2.file).recs]

\* the moments of one join
MaxMoments == 3

\* a join is still to come or under way, and the join under way has noted
\* what the files hold now and has a moment left
Noted ==
    /\ ncalls < MaxJoins \/ \E g \in Goroutines : goroutines[g].pc # "idle"
    /\ \A g \in Goroutines :
           goroutines[g].pc # "idle" =>
               /\ Moment \in goroutines[g].moments
               /\ Cardinality(goroutines[g].moments) < MaxMoments

JoinUnchanged ==
    /\ UNCHANGED <<file, Records, Cache, faults, txCalls, txTrace, tableLock, serialFile,
                   Databases, serverDir, backupZip, callers, atBackup>>
    /\ TxUnchanged

\* JoinTables is called: t1.ResetAndLoadIndexes()
GoJoin(keys, joinTypes) ==
    \E g \in Goroutines, key1 \in keys, key2 \in keys, joinType \in joinTypes :
    \E korder1 \in Perms(DOMAIN readRecordsFromFile(file).recs) :
        LET r1 == ResetAndLoadIndexes(Tbl, readRecordsFromFile(file), korder1)
            c == [op |-> "JoinTables", key |-> HNil, rec |-> <<>>,
                  key1 |-> key1, key2 |-> key2, joinType |-> joinType]
        IN /\ goroutines[g].pc = "idle"
           /\ ncalls < MaxJoins
           /\ ncalls' = ncalls + 1
           /\ Indexes' = r1.T.Indexes
           /\ goroutines' = [goroutines EXCEPT ![g] =
                  [Idle EXCEPT !.pc = IF r1.err THEN "idle" ELSE "reset1", !.call = c,
                               !.res = IF r1.err THEN "err" ELSE "none",
                               !.moments = {Moment}]]
           /\ IF r1.err THEN GoReturns(c, FALSE, TRUE) ELSE UNCHANGED <<lastOp, result>>
           /\ UNCHANGED t2
           /\ JoinUnchanged

\* t2.ResetAndLoadIndexes()
GoJoinReset2 ==
    \E g \in Goroutines :
    \E korder2 \in Perms(DOMAIN readRecordsFromFile(t2.file).recs) :
        LET me == goroutines[g]
            r2 == ResetAndLoadIndexes(t2, readRecordsFromFile(t2.file), korder2)
        IN /\ me.pc = "reset1"
           /\ t2' = r2.T
           /\ goroutines' = [goroutines EXCEPT ![g] =
                  [me EXCEPT !.pc = IF r2.err THEN "idle" ELSE "reset2",
                             !.res = IF r2.err THEN "err" ELSE "none",
                             !.moments = @ \cup {Moment}]]
           /\ IF r2.err THEN GoReturns(me.call, FALSE, TRUE) ELSE UNCHANGED <<lastOp, result>>
           /\ UNCHANGED <<Indexes, ncalls>>
           /\ JoinUnchanged

\* history: the moment an Insert or a Delete has made is noted
GoNote ==
    \E g \in Goroutines :
        LET me == goroutines[g] IN
        /\ me.pc # "idle"
        /\ Moment \notin me.moments
        /\ goroutines' = [goroutines EXCEPT ![g] = [me EXCEPT !.moments = @ \cup {Moment}]]
        /\ UNCHANGED <<Indexes, t2, ncalls, lastOp, result>>
        /\ JoinUnchanged

\* the first loop begins: range evaluates t1.Indexes[key1]
GoJoinRange ==
    \E g \in Goroutines :
        LET me == goroutines[g] IN
        /\ me.pc = "reset2"
        /\ goroutines' = [goroutines EXCEPT ![g] =
               [me EXCEPT !.pc = "scanning", !.captured = Bucket(Indexes, me.call.key1),
                          !.moments = @ \cup {Moment}]]
        /\ UNCHANGED <<Indexes, t2, ncalls, lastOp, result>>
        /\ JoinUnchanged

\* Delete's append(idxSlice[:i], idxSlice[i+1:]...) moves the entries behind
\* i one place down in the array the captured slice shares: the slice keeps
\* its length and shows the last entry twice
Shifted(captured, bucket) ==
    [i \in 1..Len(captured) |-> IF i <= Len(bucket) THEN bucket[i] ELSE captured[Len(captured)]]

\* what the scan can read of a bucket that Delete edits meanwhile (a data
\* race): the entries as range found them, or the entries moved by Delete
ScanReads(captured, bucket) ==
    {captured} \cup (IF Len(bucket) < Len(captured) THEN {Shifted(captured, bucket)} ELSE {})

\* the two loops of JoinTables, and its return
GoJoinScan ==
    \E g \in Goroutines :
        LET me == goroutines[g]
            c == me.call
        IN /\ me.pc = "scanning"
           /\ \E index1 \in ScanReads(me.captured, Bucket(Indexes, c.key1)) :
                  LET index2 == Bucket(t2.Indexes, c.key2)
                      rows == joinLeftLoop(index1, index2, c.key1, c.key2, c.joinType)
                              \o (IF c.joinType \in {"RightJoin", "FullOuterJoin"}
                                  THEN joinRightLoop(index1, index2, c.key1, c.key2)
                                  ELSE <<>>)
                  IN goroutines' = [goroutines EXCEPT ![g] =
                         [me EXCEPT !.pc = "idle", !.res = "ok", !.rows = rows,
                                    !.captured = <<>>, !.moments = @ \cup {Moment}]]
           /\ GoReturns(c, FALSE, FALSE)
           /\ UNCHANGED <<Indexes, t2, ncalls>>
           /\ JoinUnchanged

NextConcJoin ==
    \/ CallInsert(ConcJoinRecords) /\ faults' = 0 /\ Noted
    \/ CallInsertT2(ConcJoinRecords2) /\ Noted
    \/ CallDelete(ConcJoinKeys) /\ faults' = 0 /\ Noted
    \/ GoJoin(JoinKeys, ConcJoinTypes)
    \/ GoJoinReset2
    \/ GoNote
    \/ GoJoinRange
    \/ GoJoinScan

SpecConcJoin == Init /\ [][NextConcJoin]_vars

(***************************************************************************)
(* Properties.                                                             *)
(***************************************************************************)
Decoded == readRecordsFromFile(file)

Wrappers == {"InsertWithTransaction", "UpdateWithTransaction", "DeleteWithTransaction"}

SelectViews == [k \in KeyStrings |-> SelectView(Tbl, k)]

\* the key and the stored form Insert gives a record
KeyOf(record) == GetStringValue(toProtoValue(StrPrefix(record[PrimaryKey])).val)
Stored(record) == [f \in DOMAIN record |-> toProtoValue(StrPrefix(record[f])).val]

\* C1: a transaction wrapper that returns an error leaves the decoded file
\* and the result of Select for every key as they were before the call, and
\* one that returns nil leaves its mutation in the file.
C1_WrapperAllOrNothing ==
    [][/\ (lastOp' \in Wrappers /\ result' = "err") =>
              /\ Decoded' = Decoded
              /\ SelectViews' = SelectViews
       /\ \A record \in InsertRecords :
              (CallInsertWithTransaction({record}) /\ result' = "ok") =>
                  /\ KeyOf(record) \in DOMAIN Decoded'.recs
                  /\ Decoded'.recs[KeyOf(record)] = Stored(record)
       /\ \A key \in KeyInputs, updates \in UpdateInputs :
              (CallUpdateWithTransaction({key}, {updates}) /\ result' = "ok") =>
                  /\ Sprint(key) \in DOMAIN Decoded'.recs
                  /\ \A f \in DOMAIN updates :
                         Decoded'.recs[Sprint(key)][f] = structpbNewValue(updates[f]).val
       /\ \A key \in KeyInputs :
              (CallDeleteWithTransaction({key}) /\ result' = "ok") =>
                  Sprint(key) \notin DOMAIN Decoded'.recs
      ]_vars

\* C2: after Start, one successful Insert, Update or Delete, and Rollback,
\* Select returns for every key what it returned before Start, and the
\* decoded file is the snapshot taken at Start (no file write having failed).
C2_RollbackRestores ==
    [][(txTrace = "mutated" /\ lastOp' = "Rollback" /\ result' = "ok" /\ faults' = 0) =>
           /\ SelectViews' = selectAtStart
           /\ ~Decoded'.err
           /\ Decoded'.recs = OriginalRecords
      ]_vars

\* a Transaction of goroutine g is open: its Start has returned and its
\* Commit or Rollback has not
TxOpen(g) ==
    /\ goroutines[g].tx
    /\ goroutines[g].pc \in {"started", "writing", "failed", "rollback"}

\* C3: from the return of Start to the return of Commit or Rollback the
\* transaction's goroutine holds the table's exclusive lock.
C3_TransactionHoldsLock ==
    \A g \in Goroutines : TxOpen(g) => tableLock.writer = g

\* what Select(key) returns on a table whose file is f and whose cache is empty
SelectOnFile(f, key) ==
    SelectView([file |-> f, Records |-> EmptyMap, Cache |-> EmptyMap,
                Indexes |-> EmptyMap], Sprint(key))

Returned(g) == goroutines[g].pc = "idle" /\ goroutines[g].res # "none"

\* two goroutines have each returned from Insert of the same record with a
\* primary key, and no other call was made on the table
TwoInserts(g, h) ==
    /\ g # h
    /\ ncalls = 2
    /\ Returned(g) /\ Returned(h)
    /\ goroutines[g].call.op = "Insert"
    /\ goroutines[g].call = goroutines[h].call
    /\ PrimaryKey \in DOMAIN goroutines[g].call.rec

\* C4: with goroutines calling Insert, Update, Delete and Select at the same
\* time, whenever no goroutine holds the exclusive lock the file decodes to
\* what the calls give applied one at a time in the order they took the
\* lock; a Select returns what is stored by the writes that returned before
\* it; of two Inserts of one primary key on an empty table exactly one
\* succeeds.
C4_LockSerialises ==
    [][/\ tableLock'.writer = "none" =>
              readRecordsFromFile(file') = readRecordsFromFile(serialFile')
       /\ \A g \in Goroutines :
              (goroutines[g].pc = "reading" /\ goroutines'[g].pc = "idle") =>
                  /\ goroutines'[g].val = SelectOnFile(serialFile, goroutines[g].call.key).val
                  /\ (goroutines'[g].res = "err")
                         = SelectOnFile(serialFile, goroutines[g].call.key).err
       /\ \A g, h \in Goroutines :
              TwoInserts(g, h)' =>
                  {goroutines'[g].res, goroutines'[h].res} = {"ok", "err"}
      ]_vars

C4_Witness ==
    \E g, h \in Goroutines :
        /\ TwoInserts(g, h)
        /\ goroutines[g].concurrent /\ goroutines[h].concurrent
        /\ goroutines[g].res = "ok" /\ goroutines[h].res = "err"
        /\ readRecordsFromFile(file).recs # EmptyMap

\* C5: after a call that returns success, every key in Cache is in Records
\* and in the decoded file with an equal record (no file write having failed).
C5_CacheIsStored ==
    (result = "ok" /\ faults = 0) =>
        \A k \in DOMAIN Cache :
            /\ k \in DOMAIN Records
            /\ Records[k] = Cache[k]
            /\ ~Decoded.err
            /\ k \in DOMAIN Decoded.recs
            /\ Decoded.recs[k] = Cache[k]

IsIn(bucket, r) == \E i \in 1..Len(bucket) : bucket[i] = r

\* C6: after CreateTable, LoadTables, Insert, InsertMany, Update, UpdateMany,
\* Delete or DeleteMany returns success, every record of Records is in the
\* index bucket of each of its fields.
C6_EveryFieldIndexed ==
    (/\ lastOp \in {"CreateTable", "LoadTables", "Insert", "InsertMany", "Update",
                    "UpdateMany", "Delete", "DeleteMany"}
     /\ result = "ok"
     /\ faults = 0) =>
        \A k \in DOMAIN Records :
            \A f \in DOMAIN Records[k] : IsIn(Bucket(Indexes, f), Records[k])

\* C7: after any sequence of Insert, Update, UpdateMany, Delete and DeleteMany
\* calls, every index entry is a stored record with its current field values,
\* and no stored record is twice in a bucket (no file write having failed).
C7_IndexEntriesCurrent ==
    faults = 0 =>
    \A f \in DOMAIN Indexes :
        /\ \A i \in 1..Len(Indexes[f]) :
               \E k \in DOMAIN Decoded.recs : Decoded.recs[k] = Indexes[f][i]
        /\ \A k \in DOMAIN Decoded.recs :
               Cardinality({i \in 1..Len(Indexes[f]) : HasKey(Indexes[f][i], k)}) <= 1

\* C8: after CreateTable, LoadTables, Insert, InsertMany, Update, UpdateMany,
\* Delete, DeleteMany or Rollback returns success, decoding the file yields
\* exactly Records.
C8_FileIsRecords ==
    (/\ lastOp \in {"CreateTable", "LoadTables", "Insert", "InsertMany", "Update",
                    "UpdateMany", "Delete", "DeleteMany", "Rollback"}
     /\ result = "ok") =>
        /\ ~Decoded.err
        /\ Decoded.recs = Records

C8_Witness ==
    /\ lastOp = "Rollback"
    /\ result = "ok"
    /\ Records # EmptyMap
    /\ faults > 0

\* C9: Insert, Update or Delete that returns an error leaves the file,
\* Records, Cache and Indexes as they were before the call (here for the
\* errors other than a failed file write).
C9_ErrorLeavesState ==
    [][(lastOp' \in {"Insert", "Update", "Delete"} /\ result' = "err" /\ faults' = 0) =>
           /\ file' = file
           /\ Records' = Records
           /\ Cache' = Cache
           /\ Indexes' = Indexes
      ]_vars

\* C10: after any sequence of successful Insert, InsertMany, Update,
\* UpdateMany, Delete and DeleteMany calls, every stored record has the
\* primary-key field with a string value other than "" and "<nil>", and no
\* two stored records have the same primary-key value.
C10_PrimaryKeys ==
    /\ \A k \in DOMAIN Decoded.recs :
           /\ PrimaryKey \in DOMAIN Decoded.recs[k]
           /\ GetStringValue(Decoded.recs[k][PrimaryKey]) \notin {"", "<nil>"}
    /\ \A k1, k2 \in DOMAIN Decoded.recs :
           (/\ PrimaryKey \in DOMAIN Decoded.recs[k1]
            /\ PrimaryKey \in DOMAIN Decoded.recs[k2]
            /\ Decoded.recs[k1][PrimaryKey] = Decoded.recs[k2][PrimaryKey]) => k1 = k2


C12_IntegerKeySelect ==
    [][\A record \in ValRecords :
           (/\ PrimaryKey \in DOMAIN record
            /\ record[PrimaryKey].t = "int"
            /\ CallInsert({record})
            /\ result' = "ok")
           => \A key \in {record[PrimaryKey], HStr(FormatInt(record[PrimaryKey].n))} :
                  /\ ~Select(Tbl, key)'.err
                  /\ Select(Tbl, key)'.val[PrimaryKey] = record[PrimaryKey]
      ]_vars

\* C13: a record inserted with the field v equal to a supported scalar is
\* returned by Select and by SelectAll with v equal to that scalar, of the
\* same type.
C13_ValueRoundTrip ==
    [][\A record \in ValRecords :
           (CallInsert({record}) /\ result' = "ok")
           => \A k \in StoredKeys' \ StoredKeys :
                  /\ ~SelectAll(Tbl)'.err
                  /\ SelectAll(Tbl)'.val[k]["v"] = record["v"]
                  /\ ~Select(Tbl, HStr(k))'.err
                  /\ Select(Tbl, HStr(k))'.val["v"] = record["v"]
      ]_vars

\* C15: Insert(record) returns an error exactly when the primary-key field
\* is missing, or nil, or has an empty string form, or some field value is not
\* representable by the value codec, or a record with the same primary key is
\* stored; every other Insert succeeds, adds exactly its one record and leaves
\* the other stored records unchanged.
MustFail(record) ==
    \/ PrimaryKey \notin DOMAIN record
    \/ record[PrimaryKey] = HNil
    \/ Sprint(record[PrimaryKey]) = ""
    \/ \E f \in DOMAIN record : record[f] = HBad
    \/ KeyOf(record) \in StoredKeys

C15_InsertErrors ==
    [][\A record \in ValRecords :
           CallInsert({record})
           => /\ (result' = "err") <=> MustFail(record)
              /\ result' = "ok"
                 => /\ Cardinality(StoredKeys' \ StoredKeys) = 1
                    /\ \A k \in StoredKeys :
                           /\ k \in StoredKeys'
                           /\ readRecordsFromFile(file').recs[k]
                                  = readRecordsFromFile(file).recs[k]
      ]_vars

\* C14: after a successful Update(k, {v: x}), and after a successful
\* UpdateMany({k: {v: x}}), the stored form of v is the one Insert stores
\* for x, and Select(k) reads v back as x.
C14_UpdateEncodesLikeInsert ==
    [][\A key \in QKeys, updates \in QUpdates :
           (/\ \/ CallUpdate({key}, {updates})
               \/ CallUpdateMany({(Sprint(key) :> updates)})
            /\ result' = "ok")
           => /\ readRecordsFromFile(file').recs[Sprint(key)]["v"] = Stored(updates)["v"]
              /\ ~Select(Tbl, key)'.err
              /\ Select(Tbl, key)'.val["v"] = updates["v"]
      ]_vars

\* SelectWithFilter({v: x}) on the table T
FilterV(T, x) ==
    SelectWithFilter(T, [v |-> x], [k \in DOMAIN readRecordsFromFile(T.file).recs |-> <<"v">>])

\* the decoded value of the field v of the stored record k
DecodedV(k) == fromProtoValue(readRecordsFromFile(file).recs[k]["v"]).val

\* two host values that differ, an integer and a float of the same number
\* not being counted as different
Differs(w, x) ==
    IF w.t \in {"int", "float64"} /\ x.t \in {"int", "float64"} THEN w.n # x.n ELSE w # x

\* C16: after Update(k, {v: x}) succeeded on a record whose v held w # x,
\* SelectWithFilter({v: x}) contains k and SelectWithFilter({v: w}) does not,
\* the other records and the other fields of k are unchanged; Update of an
\* absent key returns an error.
C16_UpdateMovesRecord ==
    [][\A key \in QKeys, updates \in QUpdates :
           LET k == Sprint(key) IN
           CallUpdate({key}, {updates})
           => /\ k \notin StoredKeys => result' = "err"
              /\ (result' = "ok" /\ Differs(DecodedV(k), updates["v"]))
                 => /\ ~FilterV(Tbl', updates["v"]).err
                    /\ k \in DOMAIN FilterV(Tbl', updates["v"]).val
                    /\ k \notin DOMAIN FilterV(Tbl', DecodedV(k)).val
                    /\ StoredKeys' = StoredKeys
                    /\ \A j \in StoredKeys \ {k} :
                           readRecordsFromFile(file').recs[j]
                               = readRecordsFromFile(file).recs[j]
                    /\ readRecordsFromFile(file').recs[k]["id"]
                           = readRecordsFromFile(file).recs[k]["id"]
      ]_vars

\* the host values handed to SelectWithFilter as the filter on v
QFilterValues == {f["v"] : f \in {g \in QFilters : DOMAIN g = {"v"}}}

\* C17: a stored record is in SelectWithFilter({v: x}) if and only if the
\* decoded value of its field v is x, with the same type.
C17_FilterIsDecodedEquality ==
    \A k \in StoredKeys, x \in QFilterValues :
        /\ ~FilterV(Tbl, x).err
        /\ k \in DOMAIN FilterV(Tbl, x).val <=> DecodedV(k) = x

\* the stored value of the field v of the stored record k
StoredV(k) == readRecordsFromFile(file).recs[k]["v"]

\* C18: Equal is false on two values of different kinds, so a filter value
\* of one kind never matches a stored value of another kind, and neither does
\* a join key (isEqual) of another kind.
C18_EqualFalseAcrossKinds ==
    /\ \A k \in StoredKeys, x \in QFilterValues :
           StoredV(k).k # structpbNewValue(x).val.k
           => /\ ~Equal(StoredV(k), structpbNewValue(x).val)
              /\ ~Equal(structpbNewValue(x).val, StoredV(k))
              /\ k \notin DOMAIN FilterV(Tbl, x).val
    /\ \A k, j \in StoredKeys :
           StoredV(k).k # StoredV(j).k => ~isEqual(StoredV(k), StoredV(j))

\* C19: after Delete(k) succeeded the key k is in neither the file, nor
\* Records, nor Cache, no index entry has the primary key k, no index bucket
\* is empty and Select(k) returns an error; Delete of an absent key returns an
\* error and removes nothing.
C19_DeleteRemovesEverywhere ==
    [][\A key \in QKeys :
           LET k == Sprint(key) IN
           CallDelete({key})
           => /\ k \notin StoredKeys
                 => /\ result' = "err"
                    /\ StoredKeys' = StoredKeys
                    /\ Records' = Records
                    /\ Indexes' = Indexes
              /\ result' = "ok"
                 => /\ k \notin StoredKeys'
                    /\ k \notin DOMAIN Records'
                    /\ k \notin DOMAIN Cache'
                    /\ \A f \in DOMAIN Indexes' :
                           /\ Len(Indexes'[f]) > 0
                           /\ \A i \in 1..Len(Indexes'[f]) :
                                  FieldString(Indexes'[f][i], PrimaryKey) # k
                    /\ Select(Tbl, key)'.err
      ]_vars

\* the keys of the stored records that satisfy every filter
Satisfying(filters) ==
    {k \in StoredKeys : match(readRecordsFromFile(file).recs[k], filters)}

\* the primary keys of the records of a Query result
ResultKeys(results) == {FieldString(results[i], PrimaryKey) : i \in 1..Len(results)}

\* C20: Query with limit 0 and offset 0 returns exactly the stored records
\* that satisfy every filter, the records SelectWithFilter returns for the
\* same filters, whichever scan the planner chose.
C20_QueryIsSelectWithFilter ==
    \A query \in QQueries :
        \A order \in Perms(DOMAIN query.Filters), rorder \in Perms(DOMAIN Records) :
            LET plan == generateExecutionPlan(Tbl, query, order)
                forder == [k \in StoredKeys |-> order]
            IN \A perm \in Perms(1..Len(scanPlan(Tbl, plan, rorder))) :
                   LET results == Query(Tbl, query, order, rorder, perm) IN
                   IsSorted(plan, sortSlice(scanPlan(Tbl, plan, rorder), perm))
                   => /\ ResultKeys(results) = Satisfying(query.Filters)
                      /\ \A i \in 1..Len(results) :
                             results[i] = readRecordsFromFile(file).recs[
                                              FieldString(results[i], PrimaryKey)]
                      /\ ~SelectWithFilter(Tbl, query.Filters, forder).err
                      /\ ResultKeys(results)
                             = DOMAIN SelectWithFilter(Tbl, query.Filters, forder).val

\* the filter fields of a query whose index has a selectivity
\* |Indexes[f]| / |Records| below 1.0
Below(query) ==
    {f \in DOMAIN query.Filters \cap DOMAIN Indexes :
        Len(Indexes[f]) < Cardinality(DOMAIN Records)}

\* C21: the planner picks, among the filter fields whose index has a
\* selectivity below 1.0, one of the smallest selectivity, and the executor
\* returns the matching entries of that index; with no such field it picks no
\* index and the executor returns the matching records of Records.
C21_PlannerPicksMostSelective ==
    \A query \in PlanQueries :
        \A order \in Perms(DOMAIN query.Filters), rorder \in Perms(DOMAIN Records) :
            LET plan == generateExecutionPlan(Tbl, query, order)
                best == plan.IndexToUse
                scanned == IF best = "" THEN [i \in 1..Len(rorder) |-> Records[rorder[i]]]
                           ELSE Indexes[best]
                matching == {i \in 1..Len(scanned) : match(scanned[i], query.Filters)}
            IN /\ best = "" <=> Below(query) = {}
               /\ best # ""
                  => /\ best \in Below(query)
                     /\ \A g \in Below(query) : Len(Indexes[best]) <= Len(Indexes[g])
               /\ \A perm \in Perms(1..Len(scanPlan(Tbl, plan, rorder))) :
                      LET results == Query(Tbl, query, order, rorder, perm) IN
                      /\ Len(results) = Cardinality(matching)
                      /\ \A i \in matching : \E j \in 1..Len(results) : results[j] = scanned[i]

C21_Witness ==
    /\ lastOp = "Query"
    /\ \E query \in PlanQueries :
           \E f, g \in Below(query) : Len(Indexes[f]) < Len(Indexes[g])

\* goroutines in the middle of a read of the table: Select between RLock
\* and RUnlock, Query between its planning and its execution
Reading == {g \in Goroutines : goroutines[g].pc \in {"reading", "planned"}}

\* C22: a goroutine in the middle of a read holds the shared lock, so no
\* mutation is in its critical section at that time.
C22_ReadsHoldSharedLock ==
    \A g \in Reading : g \in tableLock.readers /\ tableLock.writer = "none"

\* the step is taken by a goroutine that holds the exclusive lock, or takes
\* it in this step
StepUnderLock ==
    \E g \in Goroutines :
        /\ goroutines'[g] # goroutines[g]
        /\ \/ tableLock.writer = g
           \/ /\ goroutines[g].pc \in {"waiting", "started"}
              /\ goroutines[g].call.op \in {"Insert", "Update", "Delete"}
              /\ CanLock(g)

\* C23: every step of a call that changes Cache or Indexes is taken under
\* the exclusive lock, and a Select that fills the cache is the only reader
\* at that time.
C23_MapsWrittenUnderLock ==
    [][/\ ((Cache' # Cache \/ Indexes' # Indexes) /\ Running # {}) => StepUnderLock
       /\ \A g \in Goroutines :
              (goroutines[g].pc = "reading" /\ goroutines'[g].pc = "idle"
                   /\ Select(Tbl, goroutines[g].call.key).T.Cache # Cache)
              => tableLock.readers = {g}
      ]_vars

\* g holds the mutex of the Transaction its wrapper made: from the return of
\* Start to the return of Commit or Rollback
HoldsTransaction(g) ==
    goroutines[g].tx /\ goroutines[g].pc \in {"started", "failed", "writing", "rollback"}

\* the next thing g does is to ask for the Table's lock: the mutation's
\* t.Lock() or Rollback's t.Table.Lock()
RequestsTable(g) ==
    /\ goroutines[g].pc \in {"waiting", "started", "failed"}
    /\ goroutines[g].call.op \in {"Insert", "Update", "Delete"}

\* C24: the Table lock is never requested while a Transaction lock is held.
C24_TableBeforeTransaction ==
    \A g \in Goroutines : RequestsTable(g) => ~HoldsTransaction(g)

\* ---------------------------------------------------------------------------
\* The joins
\* ---------------------------------------------------------------------------

Stored1 == readRecordsFromFile(file).recs
Stored2 == readRecordsFromFile(t2.file).recs

\* the pairs of stored records whose join fields hold equal decoded values
JoinPairs(key1, key2) ==
    { p \in (DOMAIN Stored1) \X (DOMAIN Stored2) :
        /\ key1 \in DOMAIN Stored1[p[1]]
        /\ key2 \in DOMAIN Stored2[p[2]]
        /\ fromProtoValue(Stored1[p[1]][key1]) = fromProtoValue(Stored2[p[2]][key2]) }

\* the stored records of t1 that no record of t2 matches
Unmatched(key1, key2) ==
    { k1 \in DOMAIN Stored1 : \A k2 \in DOMAIN Stored2 : <<k1, k2>> \notin JoinPairs(key1, key2) }

\* the row the specification describes: every field under its prefix, decoded
DecodedRow(rec1, rec2) ==
    [f \in {"t1." \o k : k \in DOMAIN rec1} \cup {"t2." \o k : k \in DOMAIN rec2} |->
        IF SubSeq(f, 1, 3) = "t1."
        THEN fromProtoValue(rec1[SubSeq(f, 4, Len(f))]).val
        ELSE fromProtoValue(rec2[SubSeq(f, 4, Len(f))]).val]

\* an integer is an integer, whatever its width
AsInteger(h) == IF h.t = "int64" THEN HInt(h.n) ELSE h

Times(results, row) ==
    Cardinality({ i \in DOMAIN results :
                    [f \in DOMAIN results[i] |-> AsInteger(results[i][f])] = row })

\* C25: JoinTables with InnerJoin returns exactly one merged row, with every
\* field of both records under the prefixes "t1." and "t2." and decoded, for
\* every pair of stored records whose join fields are equal, and no other row.
C25_InnerJoinPairs ==
    \A key1 \in JoinKeys, key2 \in JoinKeys :
    \A korder1 \in Perms(DOMAIN Stored1), korder2 \in Perms(DOMAIN Stored2) :
        LET j == JoinTables(Tbl, t2, key1, key2, "InnerJoin", korder1, korder2) IN
        ~j.err =>
            /\ Len(j.results) = Cardinality(JoinPairs(key1, key2))
            /\ \A p \in JoinPairs(key1, key2) :
                   Times(j.results, DecodedRow(Stored1[p[1]], Stored2[p[2]])) = 1

\* C26: JoinTables with LeftJoin returns the inner-join rows and exactly one
\* row with only the t1. fields for every stored record of t1 that has no
\* match in t2, so one such row for every record of t1 when t2 is empty.
C26_LeftJoinUnmatched ==
    \A key1 \in JoinKeys, key2 \in JoinKeys :
    \A korder1 \in Perms(DOMAIN Stored1), korder2 \in Perms(DOMAIN Stored2) :
        LET j == JoinTables(Tbl, t2, key1, key2, "LeftJoin", korder1, korder2) IN
        ~j.err =>
            /\ Len(j.results) = Cardinality(JoinPairs(key1, key2))
                                  + Cardinality(Unmatched(key1, key2))
            /\ \A p \in JoinPairs(key1, key2) :
                   Times(j.results, DecodedRow(Stored1[p[1]], Stored2[p[2]])) = 1
            /\ \A k1 \in Unmatched(key1, key2) :
                   Times(j.results, DecodedRow(Stored1[k1], EmptyMap)) = 1

\* ---------------------------------------------------------------------------
\* The batch calls
\* ---------------------------------------------------------------------------

KeyString(record) == GetStringValue(toProtoValue(record[PrimaryKey]).val)

\* record i of the batch has a valid primary key that duplicates neither a
\* stored record nor an earlier record of the batch
Accepted(records, i) ==
    /\ PrimaryKey \in DOMAIN records[i]
    /\ ~toProtoValue(records[i][PrimaryKey]).err
    /\ KeyString(records[i]) \notin {"", "<nil>"}
    /\ \A f \in DOMAIN records[i] : ~toProtoValue(records[i][f]).err
    /\ KeyString(records[i]) \notin StoredKeys
    /\ \A h \in 1..(i - 1) : KeyString(records[h]) # KeyString(records[i])

\* C27: InsertMany persists every record of the batch that has a valid
\* primary key and duplicates neither a stored record nor an earlier record of
\* the batch, even when other records of the batch are rejected (no write of
\* the file has failed).
C27_InsertManyPerRecord ==
    [][\A records \in InsertBatches :
          (CallInsertMany({records}) /\ faults' = 0) =>
              \A i \in 1..Len(records) :
                  Accepted(records, i) =>
                      KeyString(records[i]) \in DOMAIN readRecordsFromFile(file').recs]_vars

FileReadable == ~readRecordsFromFile(file).err


\* the keys of an UpdateMany batch that are not stored
MissingUpdates(updates) == { k \in DOMAIN updates : k \notin StoredKeys }

\* the field values of an UpdateMany batch, for the stored keys, that
\* structpb.NewValue does not convert
BadValues(updates) ==
    { kf \in UNION { {<<k, f>> : f \in DOMAIN updates[k]} : k \in DOMAIN updates } :
        kf[1] \in StoredKeys /\ structpbNewValue(updates[kf[1]][kf[2]]).err }

\* the stored records with every convertible value of the batch applied
UpdatedRecords(updates) ==
    LET all == readRecordsFromFile(file).recs
        good(k) == IF k \in DOMAIN updates
                   THEN { f \in DOMAIN updates[k] : ~structpbNewValue(updates[k][f]).err }
                   ELSE {}
    IN [k \in DOMAIN all |->
           [f \in (DOMAIN all[k]) \cup good(k) |->
               IF f \in good(k) THEN structpbNewValue(updates[k][f]).val ELSE all[k][f]]]

\* the positions of a DeleteMany batch whose key is not stored
MissingDeletes(keys) ==
    { i \in 1..Len(keys) :
        toProtoValue(keys[i]).err \/ GetStringValue(toProtoValue(keys[i]).val) \notin StoredKeys }

\* the stored records without those the batch names
RemainingRecords(keys) ==
    LET all == readRecordsFromFile(file).recs
        gone == { GetStringValue(toProtoValue(keys[i]).val) : i \in 1..Len(keys) }
    IN [k \in (DOMAIN all) \ gone |-> all[k]]

DataFile(records) == [kind |-> "data", entries |-> protoMarshal(records)]

ValidCall(call) == ValidFilename(call.tableName) /\ ValidFilename(call.primaryKey)

\* caller c's CreateTable returns in this step
CreateReturns(c) == callers[c].pc # "done" /\ callers'[c].pc = "done"

\* c and d called CreateTable with the same valid names for a table that was
\* not there, and each had begun before the other returned
ConcurrentCreates(c, d) ==
    /\ c # d
    /\ callers[c].pc = "done" /\ callers[d].pc = "done"
    /\ d \in callers[c].rivals
    /\ callers[c].absent
    /\ ValidCall(callers[c]) /\ ValidCall(callers[d])

\* C29: CreateTable returns an error and leaves the catalog of tables and the
\* files unchanged when the table name or the primary key does not match
\* [A-Za-z0-9_-]+ or the table already exists; CreateDatabase fails for an
\* existing name; of two concurrent CreateTable calls with the same name
\* exactly one succeeds.
C29_CreateTableRejects ==
    /\ [][\A c \in Callers :
             (/\ CreateReturns(c)
              /\ \/ ~ValidCall(callers[c])
                 \/ callers[c].tableName \in DOMAIN Databases[callers[c].db].Tables)
             => /\ callers'[c].res = "err"
                /\ Catalog(Databases') = Catalog(Databases)
                /\ serverDir' = serverDir]_vars
    /\ [][\A name \in DOMAIN Databases :
             CallCreateDatabase({name}) => result' = "err" /\ Databases' = Databases]_vars
    /\ [](\A c \in Callers, d \in Callers :
             ConcurrentCreates(c, d) =>
                 Cardinality({ e \in {c, d} : callers[e].res = "ok" }) = 1)

\* two concurrent calls for the same table have returned, and a
\* CreateDatabase for an existing name has failed
C29_Witness ==
    /\ \E c \in Callers, d \in Callers : ConcurrentCreates(c, d)
    /\ lastOp = "CreateDatabase" /\ result = "err"

\* C30: after BackupDatabases has succeeded and the server directory has been
\* deleted, RestoreDatabases yields the catalog of databases and tables of the
\* time of the backup, and SelectAll returns on every table the records it
\* returned then.
C30_RestoreGivesBackup ==
    [][(atBackup.trace = "deleted" /\ atBackup'.trace = "restored") =>
          /\ Catalog(Databases') = atBackup.catalog
          /\ SelectAllOf(Databases', serverDir') = atBackup.selectAll]_vars

\* the backup of two databases, one with two tables and a record in one of
\* them, has been restored after the directory was deleted
C30_Witness ==
    /\ atBackup.trace = "restored"
    /\ lastOp = "RestoreDatabases" /\ result = "ok"
    /\ DOMAIN atBackup.catalog = {"d1", "d2"}
    /\ atBackup.catalog["d1"] = {"t", "u"}
    /\ \E t \in atBackup.catalog["d1"] : DOMAIN atBackup.selectAll["d1"][t].val # {}

\* ---------------------------------------------------------------------------
\* Rollback and the other callers
\* ---------------------------------------------------------------------------

\* the wrapper of g returns its mutation's error after Rollback
RollsBack(g) == goroutines[g].pc = "rollback" /\ goroutines'[g].pc = "idle"

\* a call of another goroutine returned success while the wrapper of g was
\* between Start and Rollback, and the last such call was a plain Insert,
\* Update or Delete
OtherCompleted(g) == goroutines[g].seen.set /\ ~goroutines[g].seen.tx

\* C31: when a transaction wrapper fails and rolls back, the table file still
\* holds what the last successful Insert, Update or Delete of another
\* goroutine, returned while the wrapper ran, left in it.
C31_RollbackKeepsOthersWork ==
    [][\A g \in Goroutines :
          RollsBack(g) /\ OtherCompleted(g) => file' = goroutines[g].seen.file]_vars

\* ---------------------------------------------------------------------------
\* Termination of the transaction wrappers
\* ---------------------------------------------------------------------------

\* the wrapper g called has returned
WrapperReturned(g) ==
    goroutines[g].tx /\ goroutines[g].pc = "idle" /\ goroutines[g].res # "none"

\* the wrapper g called is under way
WrapperRunning(g) == goroutines[g].tx /\ goroutines[g].pc # "idle"

\* g holds the Table's lock
HoldsTable(g) == tableLock.writer = g \/ g \in tableLock.readers

\* C32: every transaction wrapper that was called returns; when it has
\* returned its Transaction's mutex is unlocked and was unlocked once (it is
\* locked while the wrapper runs), and no goroutine asks for the Table's lock
\* while holding it.
C32_WrappersReturn ==
    /\ [](\A g \in Goroutines :
            /\ WrapperReturned(g) =>
                   goroutines[g].mutex = "unlocked" /\ goroutines[g].unlocks = 1
            /\ WrapperRunning(g) =>
                   goroutines[g].mutex = "locked" /\ goroutines[g].unlocks = 0
            /\ RequestsTable(g) => ~HoldsTable(g))
    /\ \A g \in Goroutines : WrapperRunning(g) ~> WrapperReturned(g)

\* a wrapper has returned the read error of its Start, with its mutex
\* unlocked once, while the wrapper of the other goroutine, whose write has
\* failed, is about to roll back
C32_Witness ==
    \E g, h \in Goroutines :
        /\ WrapperReturned(g) /\ goroutines[g].res = "err"
        /\ goroutines[g].mutex = "unlocked" /\ goroutines[g].unlocks = 1
        /\ WrapperRunning(h) /\ goroutines[h].pc = "failed"
        /\ file = PartialFile
        /\ ncalls = 2

\* ---------------------------------------------------------------------------
\* Pages of a Query
\* ---------------------------------------------------------------------------

\* what Query can return for the query in this state: one result for every
\* iteration order of the maps and every outcome of sort.Slice
QueryRuns(query) ==
    UNION { UNION { { Query(Tbl, query, order, rorder, perm) :
                        perm \in { pm \in Perms(1..Len(scanPlan(Tbl,
                                        generateExecutionPlan(Tbl, query, order), rorder))) :
                                     IsSorted(generateExecutionPlan(Tbl, query, order),
                                              sortSlice(scanPlan(Tbl,
                                                  generateExecutionPlan(Tbl, query, order),
                                                  rorder), pm)) } } :
                    rorder \in Perms(DOMAIN Records) } :
            order \in Perms(DOMAIN query.Filters) }

\* the query without limit and offset: the sorted matches
Unpaged(query) == [query EXCEPT !.Limit = 0, !.Offset = 0]

\* the length of a page of m matches
PageLen(m, offset, limit) ==
    IF offset >= m THEN 0
    ELSE IF limit = 0 \/ limit > m - offset THEN m - offset
    ELSE limit

\* ascending by the sort field's number, or by the primary key's string
Ascending(query, results) ==
    \A i, j \in 1..Len(results) :
        i < j =>
            IF query.SortBy # ""
            THEN FieldNumber(results[i], query.SortBy) <= FieldNumber(results[j], query.SortBy)
            ELSE ~StringLess(FieldString(results[j], PrimaryKey),
                             FieldString(results[i], PrimaryKey))

\* the pages at offsets offset, offset + limit, ... of m matches, each from a
\* call of its own, one after the other
RECURSIVE Pagings(_, _, _)
Pagings(query, offset, m) ==
    IF offset >= m THEN {<< >>}
    ELSE { page \o rest : page \in QueryRuns([query EXCEPT !.Offset = offset]),
                          rest \in Pagings(query, offset + query.Limit, m) }

\* C33: a Query result is sorted and has the length the offset and the limit
\* leave of the m matches, and the pages at offsets 0, limit, 2*limit, ...
\* put one after the other are the sorted matches.
C33_QueryPages ==
    \A query \in PageQueries :
        \A sorted \in QueryRuns(Unpaged(query)) :
            /\ \A results \in QueryRuns(query) :
                   /\ Len(results) = PageLen(Len(sorted), query.Offset, query.Limit)
                   /\ Ascending(query, results)
            /\ query.Limit > 0 /\ query.Offset = 0
                   => Pagings(query, 0, Len(sorted)) \subseteq QueryRuns(Unpaged(query))

\* ---------------------------------------------------------------------------
\* ResetAndLoadIndexes
\* ---------------------------------------------------------------------------

\* the keys of the records of recs whose field f is a non-empty string
KeysWith(recs, f) ==
    {k \in DOMAIN recs : f \in DOMAIN recs[k] /\ GetStringValue(recs[k][f]) # ""}

\* the fields of the records of recs
FieldsOf(recs) == UNION {DOMAIN recs[k] : k \in DOMAIN recs}

\* the bucket holds one entry for each of the keys and no other
OneEntryEach(bucket, recs, keys) ==
    \E at \in [1..Len(bucket) -> keys] :
        /\ \A k \in keys : \E i \in 1..Len(bucket) : at[i] = k
        /\ \A i, j \in 1..Len(bucket) : at[i] = at[j] => i = j
        /\ \A i \in 1..Len(bucket) : bucket[i] = recs[at[i]]

\* idx is the index of recs
IndexOf(idx, recs) ==
    /\ DOMAIN idx = {f \in FieldsOf(recs) : KeysWith(recs, f) # {}}
    /\ \A f \in DOMAIN idx : OneEntryEach(idx[f], recs, KeysWith(recs, f))

\* the two indexes hold the same entries (the entries of a bucket come in
\* the iteration order of the records map)
SameEntries(idx1, idx2) ==
    /\ DOMAIN idx1 = DOMAIN idx2
    /\ \A f \in DOMAIN idx1 :
           \E p \in Perms(1..Len(idx1[f])) :
               /\ Len(idx2[f]) = Len(idx1[f])
               /\ \A i \in 1..Len(idx1[f]) : idx2[f][i] = idx1[f][p[i]]

\* C34: when ResetAndLoadIndexes has returned success, whatever the indexes
\* held before, every bucket holds one entry for each record of the file
\* whose field is a non-empty string and nothing else, and a second call
\* leaves the same entries.
C34_ResetRebuildsIndexes ==
    [][CallResetAndLoadIndexes /\ result' = "ok" =>
           /\ IndexOf(Indexes', readRecordsFromFile(file').recs)
           /\ \A korder \in Perms(StoredKeys') :
                  LET again == ResetAndLoadIndexes(Tbl', readRecordsFromFile(file'), korder)
                  IN ~again.err /\ SameEntries(again.T.Indexes, Indexes')
      ]_vars

\* ResetAndLoadIndexes has returned success on a table of two records, one
\* of them with a field that is no string, and has changed the indexes
C34_Witness ==
    /\ lastOp = "ResetAndLoadIndexes" /\ result = "ok"
    /\ Cardinality(StoredKeys) = 2
    /\ Cardinality(KeysWith(Decoded.recs, "v")) = 1
    /\ Indexes # EmptyMap
    /\ IndexOf(Indexes, Decoded.recs)

\* ---------------------------------------------------------------------------
\* Right and full outer joins
\* ---------------------------------------------------------------------------

\* the field name with the prefixes "t1." and "t2." exchanged
SwapPrefix(f) == (IF SubSeq(f, 1, 3) = "t1." THEN "t2." ELSE "t1.") \o SubSeq(f, 4, Len(f))

SwapPrefixes(row) == [f \in {SwapPrefix(k) : k \in DOMAIN row} |-> row[SwapPrefix(f)]]

\* how often the row is among the results
Count(results, row) == Cardinality({i \in DOMAIN results : results[i] = row})

RowsOf(results) == {results[i] : i \in DOMAIN results}

\* the stored records of t2 that no record of t1 matches
Unmatched2(key1, key2) ==
    { k2 \in DOMAIN Stored2 : \A k1 \in DOMAIN Stored1 : <<k1, k2>> \notin JoinPairs(key1, key2) }

\* the fields a join can be made on
SwapKeys == {"id", "v"}

\* RightJoin of t1 and t2 has the rows of LeftJoin of t2 and t1 with the
\* prefixes exchanged
RightIsSwappedLeft(key1, key2, korder1, korder2) ==
    LET right == JoinTables(Tbl, t2, key1, key2, "RightJoin", korder1, korder2).results
        left == JoinTables(t2, Tbl, key2, key1, "LeftJoin", korder2, korder1).results
        swapped == [i \in DOMAIN left |-> SwapPrefixes(left[i])]
    IN \A row \in RowsOf(right) \cup RowsOf(swapped) :
           Count(right, row) = Count(swapped, row)

\* FullOuterJoin has the rows of LeftJoin and the rows RightJoin has beyond
\* those of InnerJoin
FullIsLeftPlusRight(key1, key2, korder1, korder2) ==
    LET inner == JoinTables(Tbl, t2, key1, key2, "InnerJoin", korder1, korder2).results
        left == JoinTables(Tbl, t2, key1, key2, "LeftJoin", korder1, korder2).results
        right == JoinTables(Tbl, t2, key1, key2, "RightJoin", korder1, korder2).results
        full == JoinTables(Tbl, t2, key1, key2, "FullOuterJoin", korder1, korder2).results
    IN \A row \in RowsOf(full) \cup RowsOf(left) \cup RowsOf(right) :
           Count(full, row) = Count(left, row) + Count(right, row) - Count(inner, row)

\* RightJoin adds to InnerJoin one row with only the t2. fields for every
\* stored record of t2 that has no match in t1
RightAddsUnmatched(key1, key2, korder1, korder2) ==
    LET inner == JoinTables(Tbl, t2, key1, key2, "InnerJoin", korder1, korder2).results
        right == JoinTables(Tbl, t2, key1, key2, "RightJoin", korder1, korder2).results
    IN /\ Len(right) = Len(inner) + Cardinality(Unmatched2(key1, key2))
       /\ \A k2 \in Unmatched2(key1, key2) :
              Times(right, DecodedRow(EmptyMap, Stored2[k2])) = 1

\* C35: RightJoin of t1 and t2 returns the rows of LeftJoin of t2 and t1
\* with the prefixes exchanged, and FullOuterJoin the rows of LeftJoin plus
\* the rows RightJoin adds to InnerJoin, which are one t2-only row for every
\* record of t2 without a match.
C35_RightAndFullJoins ==
    \A key1 \in SwapKeys, key2 \in SwapKeys :
    \A korder1 \in Perms(DOMAIN Stored1), korder2 \in Perms(DOMAIN Stored2) :
        /\ RightIsSwappedLeft(key1, key2, korder1, korder2)
        /\ FullIsLeftPlusRight(key1, key2, korder1, korder2)
        /\ RightAddsUnmatched(key1, key2, korder1, korder2)

\* ---------------------------------------------------------------------------
\* JoinTables and concurrent mutations
\* ---------------------------------------------------------------------------

\* a table that holds the records
TableOf(records) ==
    [file |-> DataFile(records), Records |-> records, Cache |-> EmptyMap, Indexes |-> EmptyMap]

\* the rows are those of the join of the two tables as they were at moment
JoinOfMoment(rows, moment, c) ==
    \E korder1 \in Perms(DOMAIN moment.s1), korder2 \in Perms(DOMAIN moment.s2) :
        LET j == JoinTables(TableOf(moment.s1), TableOf(moment.s2), c.key1, c.key2,
                            c.joinType, korder1, korder2).results
        IN \A row \in RowsOf(rows) \cup RowsOf(j) : Count(rows, row) = Count(j, row)

\* a join is in its loops
Scanning == \E g \in Goroutines : goroutines[g].pc = "scanning"

\* C36: the rows JoinTables returns are those of the join of the two tables
\* as they were at one moment of the call, and the buckets of the two join
\* fields do not change while the join is in its loops.
C36_JoinSeesOneMoment ==
    /\ [](\A g \in Goroutines :
            goroutines[g].call.op = "JoinTables" /\ goroutines[g].res = "ok"
                => \E moment \in goroutines[g].moments :
                       JoinOfMoment(goroutines[g].rows, moment, goroutines[g].call))
    /\ [][Scanning => \A g \in Goroutines :
              LET c == goroutines[g].call IN
              goroutines[g].pc = "scanning"
                  => /\ Bucket(Indexes', c.key1) = Bucket(Indexes, c.key1)
                     /\ Bucket(t2.Indexes, c.key2)' = Bucket(t2.Indexes, c.key2)]_vars

\* ---------------------------------------------------------------------------
\* CreateTable and its files
\* ---------------------------------------------------------------------------

\* both files of the table are in the directory of the database
HasFiles(disk, dbName, tableName) ==
    /\ FileAt(disk, dbName, tableName \o ".dat") # AbsentFile
    /\ FileAt(disk, dbName, tableName \o ".meta") # AbsentFile

\* LoadTables succeeds on every directory of the server directory
LoadTablesSucceeds(disk) ==
    \A dbName \in DOMAIN disk.dirs :
        ~loadTablesLoop(SortedNames(DOMAIN disk.dirs[dbName]), disk.dirs[dbName],
                        NewDatabase).err

\* C37: a CreateTable that returns the error of one of its file operations
\* leaves the table out of Database.Tables; every table of the catalog has
\* its .dat and its .meta file, and LoadTables succeeds on the directories.
C37_FailedCreateLeavesNoTable ==
    /\ [][\A table \in ServerTables, primaryKey \in PrimaryKeys,
            w \in CreateOutcomes \ {"ok"} :
              /\ CallCreateTableW({table}, {primaryKey}, {w})
              /\ table[2] \notin DOMAIN Databases[table[1]].Tables
              => table[2] \notin DOMAIN Databases'[table[1]].Tables]_vars
    /\ [](/\ \A dbName \in DOMAIN Databases :
               \A tableName \in DOMAIN Databases[dbName].Tables :
                   HasFiles(serverDir, dbName, tableName)
          /\ LoadTablesSucceeds(serverDir))

\* ---------------------------------------------------------------------------
\* The backup of every catalog
\* ---------------------------------------------------------------------------

\* the paths of the .dat and .meta files of the tables of the catalog
CatalogPaths(S) ==
    UNION { UNION { {Join(d, t \o ".dat"), Join(d, t \o ".meta")} : t \in DOMAIN S[d].Tables } :
            d \in DOMAIN S }

\* C38: BackupDatabases succeeds in every state that CreateDatabase and
\* CreateTable lead to, a database without a table included, and the zip
\* then holds the .dat and the .meta file of every table of the catalog.
C38_BackupAlwaysSucceeds ==
    \A order \in Perms(DOMAIN Databases) :
        LET r == BackupDatabases(Databases, serverDir, order) IN
        /\ ~r.err
        /\ \A path \in CatalogPaths(Databases) :
               /\ path \in DOMAIN r.zip.entries
               /\ r.zip.entries[path] = FileAt(serverDir, Dir(path), Base(path))


(***************************************************************************)
(* Insert and InsertMany of one record, Delete and DeleteMany of one key,  *)
(* taken from the same table state with no file write failing.             *)
(***************************************************************************)
InsertOne(record) == Insert(Tbl, readRecordsFromFile(file), record, "ok")
InsertManyOne(record) == InsertMany(Tbl, readRecordsFromFile(file), <<record>>, "ok")

SameInsert(record) ==
    /\ InsertOne(record).err = InsertManyOne(record).err
    /\ ~InsertOne(record).err => InsertOne(record).T = InsertManyOne(record).T

\* C39: for every record r and every table state, Insert(r) and
\* InsertMany([r]) fail together or succeed together, and on success leave
\* the same file (the record under the same key with the same encoded field
\* values), the same Cache and the same Records, digit-only strings included.
C39_InsertManyOfOneIsInsert == \A record \in ValRecords : SameInsert(record)

DeleteOne(key) == Delete(Tbl, readRecordsFromFile(file), key, "ok")
DeleteManyOne(key) == DeleteMany(Tbl, readRecordsFromFile(file), <<key>>, "ok")

SameDelete(key) ==
    \/ /\ ~DeleteOne(key).err
       /\ DeleteManyOne(key).nerr = 0
       /\ DeleteOne(key).T = DeleteManyOne(key).T
    \/ /\ DeleteOne(key).err
       /\ DeleteManyOne(key).nerr > 0

\* C40: for every key k, string or integer, and every table state, Delete(k)
\* and DeleteMany([k]) either both remove the same record, leaving the same
\* file, cache and indexes, or both report that the key was not found.
C40_DeleteManyOfOneIsDelete == \A key \in ValKeys : SameDelete(key)

====
